---- MODULE Spec2Model ----
(***************************************************************************)
(* The opportunity pipeline of the arbitrage bot: the arb cache            *)
(* (bin/arb/src/strategy/arb_cache.rs), the event handler that feeds and   *)
(* drains it (bin/arb/src/strategy/mod.rs) and the worker that turns a     *)
(* dispatched item into a submitted transaction                            *)
(* (bin/arb/src/strategy/worker.rs, bin/arb/src/defi/trade.rs).            *)
(*                                                                         *)
(* Time is the monotonic clock (Instant) in whole seconds.                 *)
(***************************************************************************)
EXTENDS Integers, Sequences, FiniteSets, TLC

\* ------------------------------------------------------------------ bounds

\* The clock runs from 0 to MaxTime.
MaxTime == 6
\* The cache specification stops inserting at this generation.
MaxInserts == 3
\* Transaction digests are 0..MaxDigest.
MaxDigest == 2
\* The digest loop may raise the gas budget MaxBump times.
MaxBump == 1
\* A dry-run reports at most MaxChanges balance changes.
MaxChanges == 2
\* The worker specification stops inserting at this generation.
MaxWorkerGen == 2
\* The searches over every evaluation function run inside 0..MaxSmallInput,
\* with values 1..MaxValue.
MaxSmallInput == 5
MaxValue == 2
\* The searches over unimodal evaluation functions run inside 0..MaxInput,
\* with slopes 1..MaxSlope on either side of the maximum.
MaxInput == 10
MaxSlope == 2

\* The coin types that events involve.
Coins == {"coinA", "coinB"}
Digests == 0..MaxDigest
\* The trigger transactions that events carry: a public transaction whose
\* swap events name no pool (pool_id None is 0), and a sealed-auction
\* opportunity with its deadline on the wall clock, in milliseconds.
Triggers ==
    {[shio |-> FALSE, pool_id |-> 0, digest |-> 0, deadline_timestamp_ms |-> 0],
     [shio |-> TRUE, pool_id |-> 1, digest |-> 1, deadline_timestamp_ms |-> 1200]}
\* utils::current_time_ms() as the event handler reads it.
HandlerClockMs == {1000}

\* Pools, the greatest simulated amount_out, the paths of a trial's lists and
\* the paths handed to one best-path selection.
MaxPool == 3
MaxAmountOut == 2
MaxPaths == 2
MaxCandidates == 3

\* Shio instances (one per Trader), the tasks that build bids with one
\* instance at the same time, and the global-state objects modelled.
MaxShio == 2
MaxTasks == 2
MaxStates == 3

\* The wall clock of the epoch cache runs from 0 to MaxClock, and epochs on
\* chain last EpochDuration.
MaxClock == 11
EpochDuration == 3

\* The pool-creation events on chain are 1..MaxEvents, queried in pages of
\* PageSize, and at most MaxFailures flushes fail or restarts happen.
MaxEvents == 4
PageSize == 2
MaxFailures == 2

\* The indexer sees pools 1..MaxIndexPools, of at most MaxTokens tokens out
\* of the token types 1..MaxTokenTypes.
MaxIndexPools == 2
MaxTokens == 3
MaxTokenTypes == 3

\* The pools a flash-loan path is made of are 1..MaxDexPools.
MaxDexPools == 2

\* The simulator's objects are the clock (id 0) and 1..MaxObjects, at
\* versions 1..MaxVersion; the overlay holds at most MaxOverrides entries.
MaxObjects == 1
MaxVersion == 2
MaxOverrides == 2

\* A trade result has amounts 0..MaxTradeAmount and a net gas cost of
\* -MaxGasCost..MaxGasCost (storage rebates can exceed the gas used).
MaxTradeAmount == 3
MaxGasCost == 1

\* The best profit of an opportunity whose bid is computed is 1..MaxProfit.
MaxProfit == 25

\* The items sent to one worker.
MaxItems == 3

\* The iterations of the collector's loop.
MaxPolls == 4

\* The pools the indexer knows when paths are searched.
MaxGraphPools == 2

\* The simulator's u64 is a word of WordSize values here, the mock gas coin
\* holds MockGasValue of them, and gas, net changes and loans stay small.
WordSize == 64
MockGasValue == 10
MaxGasDelta == 2
MaxNetChange == 2
MaxBorrowed == 2

\* The generation at which a backlogged pipeline stops taking events.
MaxBacklogGen == 12

\* gas_budget's u64 is 0..MaxGasBudget here.
MaxGasBudget == 4

\* The input type INP of the step closure has InpBits bits here, and the
\* widths given to it are 0..MaxStepWidth.
InpBits == 26
MaxStepWidth == 150

\* ------------------------------------------------------- program constants

\* ArbCache::new(Duration::from_secs(5))
TTL == 5

\* ------------------------------------------------------------------ state

VARIABLES
    now,                 \* Instant::now()
    map,                 \* ArbCache.map: the entries, each keyed by its coin
    heap,                \* ArbCache.heap: the queued HeapItems
    generation_counter,  \* ArbCache.generation_counter
    channel,             \* the items in the arb_item channel, oldest first
    recent_arbs,         \* ArbStrategy.recent_arbs
    last                 \* what the most recent step did and returned

vars == <<now, map, heap, generation_counter, channel, recent_arbs, last>>

\* Source::Public and Source::Shio { .. } as on_new_shio_item builds it.
SourcePublic == [kind |-> "Public"]

SourceShio(opp_tx_digest, start, deadline) ==
    [kind |-> "Shio", opp_tx_digest |-> opp_tx_digest, bid_amount |-> 0,
     start |-> start, arb_found |-> 0, deadline |-> deadline]

is_shio(source) == source.kind = "Shio"

\* The source on_new_tx_effects and on_new_shio_item give the entries of one
\* event.
SourceOf(trigger, start) ==
    IF trigger.shio
    THEN SourceShio(trigger.digest, start, trigger.deadline_timestamp_ms - 20)
    ELSE SourcePublic

NoItem == [coin |-> "none"]

\* ------------------------------------------------------------ the HashMap

MapHas(m, coin) == \E e \in m : e.coin = coin

MapGet(m, coin) == CHOOSE e \in m : e.coin = coin

\* MapInsert that keeps the value already stored under the key.
MapInsertKeepsOld(m, e) == m \cup {e}

\* HashMap::insert: the new value replaces the one stored under the key.
MapInsert(m, e) == {x \in m : x.coin # e.coin} \cup {e}

MapRemove(m, coin) == {x \in m : x.coin # coin}

\* ---------------------------------------------------------- the BinaryHeap

\* HeapGe without the final reverse(): the latest expiry comes first.
HeapGeNotReversed(a, b) ==
    \/ a.expires_at > b.expires_at
    \/ a.expires_at = b.expires_at /\ a.generation >= b.generation

\* Ord for HeapItem: expires_at, then generation, reversed. TRUE when a is
\* greater than or equal to b in that order, that is, a leaves the max-heap
\* no later than b.
HeapGe(a, b) ==
    \/ a.expires_at < b.expires_at
    \/ a.expires_at = b.expires_at /\ a.generation <= b.generation

\* BinaryHeap::peek / the item BinaryHeap::pop removes: a greatest item.
HeapTop(h) == CHOOSE t \in h : \A o \in h : HeapGe(t, o)

\* ------------------------------------------------------------ the ArbCache

Cache == [map |-> map, heap |-> heap, generation_counter |-> generation_counter]

\* ArbCache::insert
CacheInsert(c, t, coin, pool_id, digest, source) ==
    LET generation == c.generation_counter + 1
        expires_at == t + TTL
    IN  [map |-> MapInsert(c.map, [coin |-> coin, digest |-> digest,
                                   generation |-> generation,
                                   expires_at |-> expires_at, source |-> source]),
         heap |-> c.heap \cup {[expires_at |-> expires_at, generation |-> generation,
                                coin |-> coin, pool_id |-> pool_id]},
         generation_counter |-> generation]

\* ArbCache::remove_expired: the loop over the heap tops. Returns the cache
\* and the expired coins in the order they were pushed.
RECURSIVE RemoveExpiredLoop(_, _, _)
RemoveExpiredLoop(c, t, expired_coins) ==
    IF c.heap = {} THEN [cache |-> c, expired |-> expired_coins]
    ELSE
      LET top == HeapTop(c.heap)
          popped == [c EXCEPT !.heap = @ \ {top}]
      IN  IF MapHas(c.map, top.coin)
          THEN LET entry == MapGet(c.map, top.coin)
               IN  IF entry.generation # top.generation
                   THEN RemoveExpiredLoop(popped, t, expired_coins)
                   ELSE IF entry.expires_at <= t
                   THEN RemoveExpiredLoop(
                            [popped EXCEPT !.map = MapRemove(@, top.coin)],
                            t, Append(expired_coins, top.coin))
                   ELSE [cache |-> c, expired |-> expired_coins]
          ELSE RemoveExpiredLoop(popped, t, expired_coins)

\* remove_expired that removes the entries and returns an empty list.
remove_expired_unreported(c, t) ==
    [cache |-> RemoveExpiredLoop(c, t, <<>>).cache, expired |-> <<>>]

remove_expired(c, t) == RemoveExpiredLoop(c, t, <<>>)

\* ArbItem::new(top.coin, top.pool_id, entry)
ArbItemNew(coin, pool_id, entry) ==
    [coin |-> coin, pool_id |-> pool_id, tx_digest |-> entry.digest,
     source |-> entry.source]

\* NotExpired with >= for >: an entry is still returned at its expiry instant.
NotExpiredInclusive(entry, t) == entry.expires_at >= t

\* `entry.expires_at > now` in pop_one
NotExpired(entry, t) == entry.expires_at > t

\* ArbCache::pop_one: pops heap tops until one is current and not expired.
\* Returns the cache, the item (NoItem for None), the generation of the heap
\* item the returned entry was found under, and the coins whose entries it
\* dropped as expired.
RECURSIVE PopOneLoop(_, _, _)
PopOneLoop(c, t, dropped) ==
    IF c.heap = {}
    THEN [cache |-> c, item |-> NoItem, generation |-> 0, dropped |-> dropped]
    ELSE
      LET top == HeapTop(c.heap)
          popped == [c EXCEPT !.heap = @ \ {top}]
      IN  IF MapHas(c.map, top.coin)
          THEN LET entry == MapGet(c.map, top.coin)
               IN  IF entry.generation = top.generation
                   THEN IF NotExpired(entry, t)
                        THEN [cache |-> [popped EXCEPT !.map = MapRemove(@, top.coin)],
                              item |-> ArbItemNew(top.coin, top.pool_id, entry),
                              generation |-> top.generation,
                              dropped |-> dropped]
                        ELSE PopOneLoop([popped EXCEPT !.map = MapRemove(@, top.coin)],
                                        t, dropped \cup {top.coin})
                   ELSE PopOneLoop(popped, t, dropped)
          ELSE PopOneLoop(popped, t, dropped)

pop_one(c, t) == PopOneLoop(c, t, {})

\* ------------------------------------------------------------- the strategy

\* `channel_len < 10` and `10 - channel_len`
ChannelLimit == 10

\* --max-recent-arbs
MaxRecentArbs == 2

\* The generation at which the pipeline stops taking events that insert.
MaxGen == 11

Range(q) == {q[i] : i \in 1..Len(q)}

\* The coin pools parsed from the swap events of one event, in the order the
\* handler iterates them: none, one coin, two coins.
CoinPoolOrders == {<<>>, <<"coinA">>, <<"coinA", "coinB">>}

\* Event::PublicTx, Event::PrivateTx and Event::Shio. fails: the opportunity's
\* digest does not parse or the epoch cannot be fetched.
Events ==
    {[kind |-> "PrivateTx", coin_pools |-> <<>>, fails |-> FALSE]}
    \cup {e \in [kind : {"PublicTx", "Shio"}, coin_pools : CoinPoolOrders,
                  fails : BOOLEAN] : e.coin_pools = <<>> => ~e.fails}

TriggerOf(kind) == CHOOSE trigger \in Triggers : trigger.shio = (kind = "Shio")

\* The loops of on_new_tx_effects and on_new_shio_item over the coin pools.
RECURSIVE InsertAll(_, _, _, _, _)
InsertAll(c, t, coin_pools, trigger, source) ==
    IF coin_pools = <<>> THEN c
    ELSE InsertAll(CacheInsert(c, t, Head(coin_pools), trigger.pool_id,
                               trigger.digest, source),
                   t, Tail(coin_pools), trigger, source)

\* on_new_tx_effects, on_new_tx and on_new_shio_item: the Result and the
\* cache. An event without coin pools returns Ok at once; the digest of the
\* opportunity is parsed and the epoch fetched before the first insert, and
\* either can fail.
OnEvent(c, t, event, start) ==
    IF event.kind = "PrivateTx" \/ event.coin_pools = <<>>
    THEN [ok |-> TRUE, cache |-> c]
    ELSE IF event.fails THEN [ok |-> FALSE, cache |-> c]
    ELSE [ok |-> TRUE,
          cache |-> InsertAll(c, t, event.coin_pools, TriggerOf(event.kind),
                              SourceOf(TriggerOf(event.kind), start))]

\* ReturnsEarly without the early return.
ReturnsEarlyNever(result) == FALSE

\* `if let Err(error) = result { ...; return; }`
ReturnsEarly(result) == ~result.ok

\* NumToSend that does not look at the channel length.
NumToSendFixed(channel_len) == ChannelLimit

\* `10 - channel_len` items at most, and none from a channel of 10 or more.
NumToSend(channel_len) ==
    IF channel_len < ChannelLimit THEN ChannelLimit - channel_len ELSE 0

\* ShouldSend without the exemption of sealed-auction items.
ShouldSendRingOnly(ring, item) == item.coin \notin Range(ring)

\* !self.recent_arbs.contains(&item.coin) || item.source.is_shio()
ShouldSend(ring, item) == item.coin \notin Range(ring) \/ is_shio(item.source)

\* push_back, then pop_front when the ring is over max_recent_arbs.
RingPush(ring, coin) ==
    LET pushed == Append(ring, coin)
    IN  IF Len(pushed) > MaxRecentArbs THEN Tail(pushed) ELSE pushed

\* VecDeque::remove at the position of the first x == coin.
RingRemove(ring, coin) ==
    IF coin \in Range(ring)
    THEN LET pos == CHOOSE i \in 1..Len(ring) :
                        ring[i] = coin /\ \A j \in 1..(i - 1) : ring[j] # coin
         IN  SubSeq(ring, 1, pos - 1) \o SubSeq(ring, pos + 1, Len(ring))
    ELSE ring

RECURSIVE RingRemoveAll(_, _)
RingRemoveAll(ring, expired_coins) ==
    IF expired_coins = <<>> THEN ring
    ELSE RingRemoveAll(RingRemove(ring, Head(expired_coins)), Tail(expired_coins))

\* The `for _ in 0..num_to_send` loop of process_event; st holds the cache,
\* the channel, the ring and the pops made so far.
RECURSIVE DispatchLoop(_, _, _)
DispatchLoop(n, t, st) ==
    IF n = 0 THEN st
    ELSE
      LET r == pop_one(st.cache, t)
      IN  IF r.item = NoItem THEN [st EXCEPT !.cache = r.cache]
          ELSE
            LET send == ShouldSend(st.recent_arbs, r.item)
                pop == [coin |-> r.item.coin, shio |-> is_shio(r.item.source),
                        in_ring |-> r.item.coin \in Range(st.recent_arbs),
                        sent |-> send]
            IN  DispatchLoop(n - 1, t,
                    [cache |-> r.cache,
                     channel |-> IF send THEN Append(st.channel, r.item)
                                 ELSE st.channel,
                     recent_arbs |-> IF send THEN RingPush(st.recent_arbs, r.item.coin)
                                     ELSE st.recent_arbs,
                     pops |-> Append(st.pops, pop)])

\* ------------------------------------------------------------- the worker

\* Worker.sender, and any other owner a balance change can name.
Sender == "sender"
Owners == {Sender, "other"}
SUI_COIN_TYPE == "SUI"
CoinTypes == {SUI_COIN_TYPE, "coinA"}
Amounts == {0, 1}
\* TrialResult.profit of the best trial, when find_opportunity finds one.
Profits == {15}
\* utils::current_time_ms() as find_opportunity reads it: before the
\* deadline of the opportunity, and at it.
ArbFoundClockMs == {1100, 1180}
\* The gas coins that get_gas_coin_refs returns to fix_object_refs;
\* arbitrage_one_coin builds with none (vec![]).
NoGasCoins == <<>>
GasCoinRefs == {<<"gas1">>}
\* gas_budget - GAS_BUDGET
GasBudgets == 0..MaxBump
GasPayments == {NoGasCoins} \cup GasCoinRefs
\* TransactionData::digest() hashes the whole transaction data; which digest
\* a gas payment and a gas budget give is not known in advance. One handling
\* builds with no gas coins under each budget it tries, and with the gas
\* coins of fix_object_refs under the last one.
DigestFunctions ==
    {[x \in GasPayments \X GasBudgets |->
         IF x[1] = NoGasCoins THEN built[x[2]] ELSE fixed] :
     built \in [GasBudgets -> Digests], fixed \in Digests}

\* The balance changes of a trade: of the sender in either coin, and the
\* native coin another owner receives.
BalanceChanges ==
    {bc \in [owner : Owners, coin_type : CoinTypes, amount : Amounts] :
        bc.owner # Sender => (bc.coin_type = SUI_COIN_TYPE /\ bc.amount = 1)}

\* SimulateResult.balance_changes: one change per owner and coin type.
BalanceChangeLists ==
    {l \in UNION {[1..n -> BalanceChanges] : n \in 0..MaxChanges} :
        \A i, j \in 1..Len(l) :
            (l[i].owner = l[j].owner /\ l[i].coin_type = l[j].coin_type) => i = j}

\* SimulateResult: effects.status() and balance_changes.
SimulateResults == [status_ok : BOOLEAN, balance_changes : BalanceChangeLists]

NoTx == [payment |-> <<>>, gas_budget |-> -1, bid_amount |-> 0]
NoResp == [status_ok |-> FALSE, balance_changes |-> <<>>]
NoAction == [kind |-> "None"]

with_bid_amount(source, bid_amount) ==
    IF source.kind = "Shio" THEN [source EXCEPT !.bid_amount = bid_amount]
    ELSE source

\* with_arb_found_time that still accepts a time equal to the deadline.
with_arb_found_time_inclusive(source, arb_found) ==
    IF source.kind = "Shio"
    THEN IF arb_found <= source.deadline
         THEN [source EXCEPT !.arb_found = arb_found]
         ELSE [kind |-> "ShioDeadlineMissed", start |-> source.start,
               arb_found |-> arb_found, deadline |-> source.deadline]
    ELSE source

with_arb_found_time(source, arb_found) ==
    IF source.kind = "Shio"
    THEN IF arb_found < source.deadline
         THEN [source EXCEPT !.arb_found = arb_found]
         ELSE [kind |-> "ShioDeadlineMissed", start |-> source.start,
               arb_found |-> arb_found, deadline |-> source.deadline]
    ELSE source

\* Source::bid_amount
bid_amount(source) == IF source.kind = "Shio" THEN source.bid_amount ELSE 0

\* TransactionData::new_programmable(sender, gas_coins, tx, gas_budget, gas_price)
new_programmable(gas_coins, bid, gas_budget) ==
    [payment |-> gas_coins, gas_budget |-> gas_budget, bid_amount |-> bid]

\* TransactionData::digest()
digest(h, tx_data) == h[<<tx_data.payment, tx_data.gas_budget>>]

\* `while tx_data.digest() <= opp_tx_digest { gas_budget += 1; .. }`, stopped
\* after MaxBump rebuilds.
RECURSIVE BumpLoop(_, _, _, _)
BumpLoop(h, tx_data, gas_budget, opp_tx_digest) ==
    IF digest(h, tx_data) <= opp_tx_digest /\ gas_budget < MaxBump
    THEN BumpLoop(h, [tx_data EXCEPT !.gas_budget = gas_budget + 1],
                  gas_budget + 1, opp_tx_digest)
    ELSE tx_data

\* Trader::get_flashloan_trade_tx: the bid of a Shio source goes into the
\* programmable transaction, and the digest loop runs for a Shio source.
get_flashloan_trade_tx(h, gas_coins, source) ==
    LET tx_data == new_programmable(gas_coins, bid_amount(source), 0)
    IN  IF is_shio(source)
        THEN BumpLoop(h, tx_data, 0, source.opp_tx_digest)
        ELSE tx_data

\* The digest loop has returned.
LoopReturned(h, tx_data, source) ==
    is_shio(source) => digest(h, tx_data) > source.opp_tx_digest

\* find_opportunity with the bid computed as (profit * 9) / 10.
find_opportunity_nine_tenths(h, gas_coins, source, profit, time_ms) ==
    LET found == IF source.kind = "Shio"
                 THEN with_arb_found_time(source, time_ms)
                 ELSE source
        bid == with_bid_amount(found, (profit * 9) \div 10)
    IN  [source |-> bid, tx_data |-> get_flashloan_trade_tx(h, gas_coins, bid)]

\* The tail of Arb::find_opportunity, once the best trial has profit > 0.
find_opportunity(h, gas_coins, source, profit, time_ms) ==
    LET found == IF source.kind = "Shio"
                 THEN with_arb_found_time(source, time_ms)
                 ELSE source
        bid == with_bid_amount(found, (profit \div 10) * 9)
    IN  [source |-> bid, tx_data |-> get_flashloan_trade_tx(h, gas_coins, bid)]

\* Worker::fix_object_refs
fix_object_refs(tx_data, gas_coins) == [tx_data EXCEPT !.payment = gas_coins]

\* The balance change that `find(|bc| bc.owner == AddressOwner(sender))`
\* returns: the first one of the sender, of whatever coin type.
FoundChange(balance_changes) ==
    {balance_changes[i] : i \in
        {i \in 1..Len(balance_changes) :
            /\ balance_changes[i].owner = Sender
            /\ \A j \in 1..(i - 1) : balance_changes[j].owner # Sender}}

\* The two ensure! of Worker::dry_run_tx_data and its ok_or_eyre.
DryRunPasses(resp) ==
    /\ resp.status_ok
    /\ \E bc \in FoundChange(resp.balance_changes) : bc.amount > 0

\* The action handle_arb_item submits for a transaction that passed.
ActionOf(h, arb_result, tx_data, tx_digest) ==
    IF arb_result.source.kind = "Shio"
    THEN [kind |-> "ShioSubmitBid", tx_data |-> tx_data,
          digest |-> digest(h, tx_data),
          bid_amount |-> arb_result.source.bid_amount, tx_digest |-> tx_digest]
    ELSE [kind |-> "ExecutePublicTx", tx_data |-> tx_data,
          digest |-> digest(h, tx_data), bid_amount |-> 0,
          tx_digest |-> tx_digest]

\* ------------------------------------------------------------ step records

\* op: the call; item, generation: what pop_one returned and the generation
\* of the heap item it was found under; expired: what remove_expired returned;
\* ok, channel_len, pops, swept: of process_event, whether the handler
\* returned Ok, the channel length it read, the items it popped and whether
\* it called remove_expired.
\* Of handle_arb_item: item is the item received, arb_source and built the
\* source and the transaction of the ArbResult, resp the result of the final
\* dry-run, action what was submitted.
Step(op) ==
    [op |-> op, item |-> NoItem, generation |-> 0, expired |-> <<>>,
     ok |-> TRUE, channel_len |-> 0, pops |-> <<>>, swept |-> FALSE,
     arb_source |-> SourcePublic, built |-> NoTx, built_digest |-> 0,
     resp |-> NoResp, action |-> NoAction]

\* ---------------------------------------------------------------- actions

Init ==
    /\ now = 0
    /\ map = {}
    /\ heap = {}
    /\ generation_counter = 0
    /\ channel = <<>>
    /\ recent_arbs = <<>>
    /\ last = Step("new")

\* The clock advances between calls.
Tick ==
    /\ now < MaxTime
    /\ now' = now + 1
    /\ last' = Step("tick")
    /\ UNCHANGED <<map, heap, generation_counter, channel, recent_arbs>>

SetCache(c) ==
    /\ map' = c.map
    /\ heap' = c.heap
    /\ generation_counter' = c.generation_counter

\* A caller of ArbCache::insert.
Insert ==
    \E coin \in Coins, trigger \in Triggers, start \in HandlerClockMs :
        /\ generation_counter < MaxInserts
        /\ SetCache(CacheInsert(Cache, now, coin, trigger.pool_id, trigger.digest,
                                SourceOf(trigger, start)))
        /\ last' = Step("insert")
        /\ UNCHANGED <<now, channel, recent_arbs>>

\* A caller of ArbCache::pop_one.
PopOne ==
    LET r == pop_one(Cache, now)
    IN  /\ SetCache(r.cache)
        /\ last' = [Step("pop_one") EXCEPT !.item = r.item,
                                            !.generation = r.generation]
        /\ UNCHANGED <<now, channel, recent_arbs>>

\* A caller of ArbCache::remove_expired.
RemoveExpired ==
    LET r == remove_expired(Cache, now)
    IN  /\ SetCache(r.cache)
        /\ last' = [Step("remove_expired") EXCEPT !.expired = r.expired]
        /\ UNCHANGED <<now, channel, recent_arbs>>

\* ArbStrategy::process_event, as long as the generations stay within
\* max_gen.
ProcessEventUpTo(max_gen) ==
    \E event \in Events, start \in HandlerClockMs :
      LET result == OnEvent(Cache, now, event, start)
          channel_len == Len(channel)
          sent == DispatchLoop(NumToSend(channel_len), now,
                               [cache |-> result.cache, channel |-> channel,
                                recent_arbs |-> recent_arbs, pops |-> <<>>])
          swept == remove_expired(sent.cache, now)
      IN  /\ generation_counter + Len(event.coin_pools) <= max_gen
          /\ IF ReturnsEarly(result)
             THEN /\ SetCache(result.cache)
                  /\ last' = [Step("process_event") EXCEPT !.ok = result.ok]
                  /\ UNCHANGED <<channel, recent_arbs>>
             ELSE /\ SetCache(swept.cache)
                  /\ channel' = sent.channel
                  /\ recent_arbs' = RingRemoveAll(sent.recent_arbs, swept.expired)
                  /\ last' = [Step("process_event") EXCEPT
                                 !.ok = result.ok,
                                 !.channel_len = channel_len,
                                 !.pops = sent.pops,
                                 !.swept = TRUE,
                                 !.expired = swept.expired]
          /\ UNCHANGED now

ProcessEvent == ProcessEventUpTo(MaxGen)

\* No event arrives for as long as an entry lives.
Idle ==
    /\ now + TTL <= MaxTime
    /\ now' = now + TTL
    /\ last' = Step("idle")
    /\ UNCHANGED <<map, heap, generation_counter, channel, recent_arbs>>

\* Worker::run: a worker takes the oldest item off the channel.
WorkerRecv ==
    /\ channel # <<>>
    /\ channel' = Tail(channel)
    /\ last' = Step("recv")
    /\ UNCHANGED <<now, map, heap, generation_counter, recent_arbs>>

WorkerProcessEvent == ProcessEventUpTo(MaxWorkerGen)

\* Worker::run with Worker::handle_arb_item: a worker takes the oldest item
\* off the channel; arbitrage_one_coin finds no opportunity, or it finds one
\* and the final dry-run decides whether its transaction is submitted.
HandleArbItem ==
    /\ channel # <<>>
    /\ channel' = Tail(channel)
    /\ UNCHANGED <<now, map, heap, generation_counter, recent_arbs>>
    /\ LET arb_item == Head(channel)
           handled == [Step("handle_arb_item") EXCEPT !.item = arb_item]
       IN  \/ last' = handled
           \/ \E h \in DigestFunctions, profit \in Profits,
                  time_ms \in ArbFoundClockMs :
                 LET arb_result == find_opportunity(h, NoGasCoins, arb_item.source,
                                                    profit, time_ms)
                     found == [handled EXCEPT
                                  !.arb_source = arb_result.source,
                                  !.built = arb_result.tx_data,
                                  !.built_digest = digest(h, arb_result.tx_data)]
                 IN  /\ LoopReturned(h, arb_result.tx_data, arb_result.source)
                     /\ \/ last' = found
                        \/ \E gas_coins \in GasCoinRefs, resp \in SimulateResults :
                              LET tx_data == fix_object_refs(arb_result.tx_data,
                                                             gas_coins)
                              IN  last' = [found EXCEPT
                                     !.resp = resp,
                                     !.action =
                                        IF DryRunPasses(resp)
                                        THEN ActionOf(h, arb_result, tx_data,
                                                      arb_item.tx_digest)
                                        ELSE NoAction]

Next == Idle \/ ProcessEvent \/ WorkerRecv

\* The pipeline: events, the clock and the workers.
Spec == Init /\ [][Next]_vars

CacheNext == Tick \/ Insert \/ PopOne \/ RemoveExpired

\* Any sequence of calls on one ArbCache.
SpecCache == Init /\ [][CacheNext]_vars

WorkerNext == WorkerProcessEvent \/ HandleArbItem

\* The events and one worker that handles what they dispatch.
SpecWorker == Init /\ [][WorkerNext]_vars

\* ------------------------------------------- the golden-section search

\* u and d of golden_section_search_maximize: d / u is 1 / phi.
GoldenU == 14566495
GoldenD == 9002589
\* `three` and the cap on `tries` in the loop condition.
Three == 3
MaxTries == 1000

\* The closure c. No product x * d of the widths searched here leaves the
\* input type, so the first branch is the one of a wrapped product only.
c(x) ==
    IF x * GoldenD < x THEN (x \div GoldenU) * GoldenD
    ELSE (x * GoldenD) \div GoldenU

Min2(a, b) == IF a < b THEN a ELSE b

\* A strictly unimodal evaluation function over lo..hi: it rises with slope
\* up to its maximum at peak and falls with slope down after it.
Tent(lo, hi, peak, up, down) ==
    [x \in lo..hi |->
        IF x <= peak THEN MaxSlope * MaxInput + 1 - up * (peak - x)
        ELSE MaxSlope * MaxInput + 1 - down * (x - peak)]

\* testdata of test_golden_section_search2, each value replaced by its rank
\* among the nine; the search only compares values.
TestData2 == [x \in 1..9 |-> <<1, 2, 3, 4, 6, 7, 9, 8, 5>>[x]]

\* The calls golden_section_search_maximize(min, max, goal, ctx), goal
\* evaluating f.
SearchCalls ==
    {[min |-> lo, max |-> hi, f |-> f] :
        lo \in 0..MaxSmallInput, hi \in 0..MaxSmallInput,
        f \in UNION {[l..h -> 1..MaxValue] :
                        l \in 0..MaxSmallInput, h \in 0..MaxSmallInput}}
    \cup {[min |-> 1, max |-> 9, f |-> TestData2]}
    \cup UNION {{[min |-> lo, max |-> hi, f |-> Tent(lo, hi, peak, up, down)] :
                    peak \in lo..hi, up \in 1..MaxSlope, down \in 1..MaxSlope} :
                lo \in 0..1, hi \in 0..MaxInput}

\* Evaluated that keeps the value evaluated last.
EvaluatedOverwrite(frame, x) ==
    [frame EXCEPT !.evals = Append(frame.evals, x), !.max_f = frame.f[x],
                  !.max_in = x]

\* Evaluated that keeps the smaller value.
EvaluatedMinimum(frame, x) ==
    IF frame.f[x] < frame.max_f
    THEN [frame EXCEPT !.evals = Append(frame.evals, x), !.max_f = frame.f[x],
                       !.max_in = x]
    ELSE [frame EXCEPT !.evals = Append(frame.evals, x)]

\* goal.evaluate(x) followed by `if f > max_f { max_f = f; max_in = x; .. }`
Evaluated(frame, x) ==
    LET fx == frame.f[x]
        seen == [frame EXCEPT !.evals = Append(frame.evals, x)]
    IN  IF fx > frame.max_f
        THEN [seen EXCEPT !.max_f = fx, !.max_in = x]
        ELSE seen

\* golden_section_search_maximize up to its loop: the bounds and the two
\* interior points are evaluated.
SearchStart(call) ==
    LET left == call.min
        right == call.max
        fl0 == call.f[left]
        fr0 == call.f[right]
        delta == c(right - left)
        mid_left == right - delta
        mid_right0 == left + delta
        mid_right == IF mid_right0 <= mid_left THEN Min2(mid_left + 1, right)
                     ELSE mid_right0
        frame == [op |-> "gss", pc |-> "loop", min |-> call.min, max |-> call.max,
                  f |-> call.f, left |-> left, right |-> right,
                  mid_left |-> mid_left, mid_right |-> mid_right,
                  fl |-> call.f[mid_left], fr |-> call.f[mid_right],
                  max_in |-> IF fl0 < fr0 THEN right ELSE left,
                  max_f |-> IF fl0 < fr0 THEN fr0 ELSE fl0,
                  tries |-> 0, evals |-> <<left, right>>]
    IN  Evaluated(Evaluated(frame, mid_left), mid_right)

\* LoopCondition that goes on down to an interval of one unit.
LoopConditionToOne(frame) ==
    frame.right - frame.left > 1 /\ frame.tries < MaxTries

\* `right - left > three && tries < 1000`
LoopCondition(frame) ==
    frame.right - frame.left > Three /\ frame.tries < MaxTries

\* One iteration of the loop.
SearchIterate(frame) ==
    LET tried == [frame EXCEPT !.tries = frame.tries + 1]
    IN  IF frame.fl < frame.fr
        THEN LET left == frame.mid_left
                 mid_right == left + c(frame.right - left)
             IN  Evaluated([tried EXCEPT !.left = left,
                                         !.mid_left = frame.mid_right,
                                         !.mid_right = mid_right,
                                         !.fl = frame.fr,
                                         !.fr = frame.f[mid_right]],
                           mid_right)
        ELSE LET right == frame.mid_right
                 temp == right - c(right - frame.left)
             IN  IF temp < frame.mid_left
                 THEN Evaluated([tried EXCEPT !.right = right,
                                              !.mid_right = frame.mid_left,
                                              !.mid_left = temp,
                                              !.fr = frame.fl,
                                              !.fl = frame.f[temp]],
                                temp)
                 ELSE LET mid_right == IF temp = frame.mid_left
                                       THEN Min2(temp + 1, right)
                                       ELSE temp
                      IN  Evaluated([tried EXCEPT !.right = right,
                                                  !.mid_right = mid_right,
                                                  !.fr = frame.f[mid_right]],
                                    mid_right)

\* `for i in 1..=2` after the loop: the two points above left, as long as
\* they are below right.
RECURSIVE SearchSweep(_, _)
SearchSweep(frame, i) ==
    IF i > 2 \/ frame.left + i >= frame.right THEN frame
    ELSE SearchSweep(Evaluated(frame, frame.left + i), i + 1)

\* A caller is about to call golden_section_search_maximize.
SearchInit ==
    /\ now = 0
    /\ map = {}
    /\ heap = {}
    /\ generation_counter = 0
    /\ channel = <<>>
    /\ recent_arbs = <<>>
    /\ last \in {[op |-> "gss", pc |-> "call", min |-> call.min,
                  max |-> call.max, f |-> call.f] :
                     call \in {x \in SearchCalls :
                                 x.min < x.max /\ DOMAIN x.f = x.min..x.max}}

\* The search runs up to the head of its loop.
GssStart ==
    /\ last.op = "gss" /\ last.pc = "call"
    /\ last' = SearchStart(last)
    /\ UNCHANGED <<now, map, heap, generation_counter, channel, recent_arbs>>

\* The search runs one iteration of its loop.
GssIterate ==
    /\ last.op = "gss" /\ last.pc = "loop"
    /\ LoopCondition(last)
    /\ last' = SearchIterate(last)
    /\ UNCHANGED <<now, map, heap, generation_counter, channel, recent_arbs>>

\* The search leaves its loop, sweeps and returns (max_in, max_f, max_out).
GssReturn ==
    /\ last.op = "gss" /\ last.pc = "loop"
    /\ ~LoopCondition(last)
    /\ last' = [SearchSweep(last, 1) EXCEPT !.pc = "done"]
    /\ UNCHANGED <<now, map, heap, generation_counter, channel, recent_arbs>>

SearchNext == GssStart \/ GssIterate \/ GssReturn

\* One call of golden_section_search_maximize, which runs on until it
\* returns.
SpecSearch == SearchInit /\ [][SearchNext]_vars /\ WF_vars(SearchNext)

\* ------------------------------------------- the stages of find_opportunity

RECURSIVE SearchLoop(_)
SearchLoop(frame) ==
    IF LoopCondition(frame) THEN SearchLoop(SearchIterate(frame))
    ELSE SearchSweep(frame, 1)

\* The whole search: (max_in, max_f, max_out) are max_in and max_f of the
\* frame, max_out being the TrialResult of the trial at max_in.
golden_section_search_maximize(min, max, f) ==
    SearchLoop(SearchStart([min |-> min, max |-> max, f |-> f]))

\* TrialResult::default() and a TrialResult with a profit; PartialOrd
\* compares the profits.
TrialDefault == [amount_in |-> 0, profit |-> 0]
TrialResult(amount_in, profit) == [amount_in |-> amount_in, profit |-> profit]

\* The amounts of the grid stage, `starting_grid * 10^inc`, in units of the
\* smallest one; the first two of the ten.
GridAmounts == <<1, 10>>

\* What one grid trial returns: an error, or its profit (0 is the default
\* result of a trial without profit).
GridOutcomes ==
    {[ok |-> FALSE, profit |-> 0]} \cup {[ok |-> TRUE, profit |-> x] : x \in {0, 1, 25}}
\* The order in which the JoinSet hands the trials back.
GridOrders ==
    {o \in [DOMAIN GridAmounts -> DOMAIN GridAmounts] :
        \A i, j \in DOMAIN GridAmounts : o[i] = o[j] => i = j}

\* `if trial_res > max_trial_res { max_trial_res = trial_res; }` over the
\* trials joined so far (arb.rs:160-170).
RECURSIVE GridBest(_, _, _, _)
GridBest(grid, order, k, max_trial_res) ==
    IF k > Len(GridAmounts) THEN max_trial_res
    ELSE LET inc == order[k]
             better == grid[inc].ok /\ grid[inc].profit > max_trial_res.profit
         IN  GridBest(grid, order, k + 1,
                      IF better THEN TrialResult(GridAmounts[inc], grid[inc].profit)
                      ELSE max_trial_res)

\* The profit of a trial as the amount varies: top at peak, one less per
\* unit away from it, never below 0 (a trial without profit reports 0).
ProfitCurve(lo, hi, peak, top) ==
    [x \in lo..hi |->
        LET away == IF x < peak THEN peak - x ELSE x - peak
        IN  IF top > away THEN top - away ELSE 0]

\* Refined that takes the result of the search whatever its profit.
RefinedAlways(max_trial_res, trial_res) == trial_res

\* `if trial_res > max_trial_res { max_trial_res = trial_res; }` after the
\* search (arb.rs:193-195).
Refined(max_trial_res, trial_res) ==
    IF trial_res.profit > max_trial_res.profit THEN trial_res ELSE max_trial_res

\* The golden-section stage: the search between a tenth and ten times the
\* amount of the grid stage.
GssStage(max_trial_res, f) ==
    LET upper_bound == max_trial_res.amount_in * 10
        lower_bound == max_trial_res.amount_in \div 10
        frame == golden_section_search_maximize(lower_bound, upper_bound, f)
    IN  TrialResult(frame.max_in, frame.max_f)

\* Arb::find_opportunity from its grid stage to its second ensure!.
FindOpportunityStages ==
    /\ last.op \in {"new", "find_opportunity"}
    /\ UNCHANGED <<now, map, heap, generation_counter, channel, recent_arbs>>
    /\ \E grid \in [DOMAIN GridAmounts -> GridOutcomes], order \in GridOrders :
         LET grid_res == GridBest(grid, order, 1, TrialDefault)
             call == [op |-> "find_opportunity", grid |-> grid, order |-> order,
                      p1 |-> grid_res.profit, use_gss |-> FALSE, gss_profit |-> 0,
                      ok |-> FALSE, amount_in |-> 0, profit |-> 0]
         IN  IF ~(grid_res.profit > 0) THEN last' = call
             ELSE \/ last' = [call EXCEPT !.ok = TRUE,
                                          !.amount_in = grid_res.amount_in,
                                          !.profit = grid_res.profit]
                  \/ \E peak \in {grid_res.amount_in \div 10, grid_res.amount_in,
                                  grid_res.amount_in * 10},
                        top \in {0, 3, 30} :
                       LET f == ProfitCurve(grid_res.amount_in \div 10,
                                            grid_res.amount_in * 10, peak, top)
                           trial_res == GssStage(grid_res, f)
                           max_trial_res == Refined(grid_res, trial_res)
                       IN  last' = [call EXCEPT
                                       !.use_gss = TRUE,
                                       !.gss_profit = trial_res.profit,
                                       !.ok = max_trial_res.profit > 0,
                                       !.amount_in = max_trial_res.amount_in,
                                       !.profit = max_trial_res.profit]

\* Calls of find_opportunity, one after the other.
SpecOpportunity == Init /\ [][FindOpportunityStages]_vars

\* ------------------------------------------------------- best-path selection

\* Pool object ids; NoPool is the `None` of an Option<ObjectID>.
PoolIds == 1..MaxPool
NoPool == 0

\* A Path is the sequence of its pools, at most MAX_HOP_COUNT of them; two
\* Dex values are equal when their object ids are.
MAX_HOP_COUNT == 2
Paths ==
    {path \in UNION {[1..n -> PoolIds] : n \in 1..MAX_HOP_COUNT} :
        \A i, j \in DOMAIN path : i < j => path[i] < path[j]}

\* What one spawned simulation returns: an error, or a TradeResult with its
\* amount_out.
TradeErr == [ok |-> FALSE, amount_out |-> 0]
TradeOk(amount_out) == [ok |-> TRUE, amount_out |-> amount_out]
TradeResults == {TradeErr} \cup {TradeOk(a) : a \in 0..MaxAmountOut}

\* The orders in which the tasks spawned for the indexes S can be joined.
JoinOrders(S) ==
    {o \in [1..Cardinality(S) -> S] : \A i, j \in DOMAIN o : o[i] = o[j] => i = j}

\* The indexes find_best_path_exact_in spawns a task for.
Spawned(paths) == {idx \in DOMAIN paths : paths[idx] # <<>>}

BetterOrEqual(trade_res, best_trade_res) ==
    trade_res.amount_out >= best_trade_res.amount_out

\* `trade_res > best_trade_res`, which compares the amount_out.
Better(trade_res, best_trade_res) ==
    trade_res.amount_out > best_trade_res.amount_out

\* The join loop; indexes count from 1 here, so the initial best_idx 0 of the
\* source is 1.
RECURSIVE JoinLoop(_, _, _, _)
JoinLoop(order, results, k, best) ==
    IF k > Len(order) THEN best
    ELSE LET idx == order[k]
             trade_res == results[idx]
         IN  JoinLoop(order, results, k + 1,
                      IF trade_res.ok /\ Better(trade_res, best.trade_res)
                      THEN [idx |-> idx, trade_res |-> trade_res]
                      ELSE best)

\* find_best_path_exact_in(paths, ..) when the simulation of paths[idx]
\* returns results[idx] and the tasks are joined in `order`.
find_best_path_exact_in(paths, results, order) ==
    LET best == JoinLoop(order, results, 1, [idx |-> 1, trade_res |-> TradeOk(0)])
    IN  IF best.trade_res.amount_out > 0
        THEN [ok |-> TRUE, idx |-> best.idx, path |-> paths[best.idx],
              amount_out |-> best.trade_res.amount_out]
        ELSE [ok |-> FALSE, idx |-> best.idx, path |-> <<>>, amount_out |-> 0]

\* The lists of paths a caller passes: path idx is empty or a one-pool path.
CandidateLists ==
    UNION {[1..n -> {<<>>} \cup {<<q>> : q \in PoolIds}] : n \in 1..MaxCandidates}

\* A caller is about to call find_best_path_exact_in; the simulations'
\* results are fixed by the chain state, their completion order is not.
BestPathInit ==
    /\ now = 0
    /\ map = {}
    /\ heap = {}
    /\ generation_counter = 0
    /\ channel = <<>>
    /\ recent_arbs = <<>>
    /\ last \in {[op |-> "find_best_path", pc |-> "call", paths |-> paths,
                  results |-> results] :
                     paths \in CandidateLists,
                     results \in UNION {[1..n -> TradeResults] : n \in 1..MaxCandidates}}
    /\ DOMAIN last.paths = DOMAIN last.results

FindBestPath ==
    /\ last.op = "find_best_path" /\ last.pc = "call"
    /\ \E order \in JoinOrders(Spawned(last.paths)) :
         LET res == find_best_path_exact_in(last.paths, last.results, order)
         IN  last' = [op |-> "find_best_path", pc |-> "done",
                      paths |-> last.paths, results |-> last.results,
                      order |-> order, ok |-> res.ok, idx |-> res.idx,
                      path |-> res.path, amount_out |-> res.amount_out]
    /\ UNCHANGED <<now, map, heap, generation_counter, channel, recent_arbs>>

SpecBestPath == BestPathInit /\ [][FindBestPath]_vars

\* ------------------------------------------------------------------ a trial

contains_pool(path, pool_id) ==
    IF pool_id # NoPool THEN \E i \in DOMAIN path : path[i] = pool_id
    ELSE FALSE

is_disjoint(a, b) == Range(a) \cap Range(b) = {}

\* The filter_map of TrialCtx::trial: the routes, in the order of sell_paths.
RECURSIVE TradePaths(_, _, _, _)
TradePaths(best_buy_path, sell_paths, pool_id, k) ==
    IF k > Len(sell_paths) THEN <<>>
    ELSE LET q == sell_paths[k]
             rest == TradePaths(best_buy_path, sell_paths, pool_id, k + 1)
         IN  IF is_disjoint(best_buy_path, q)
                /\ (contains_pool(best_buy_path, pool_id) \/ contains_pool(q, pool_id))
             THEN <<best_buy_path \o q>> \o rest
             ELSE rest

\* The lists find_buy_paths and find_sell_paths return: distinct paths.
PathLists ==
    {l \in UNION {[1..n -> Paths] : n \in 1..MaxPaths} :
        \A i, j \in DOMAIN l : l[i] = l[j] => i = j}

\* The contexts TrialCtx::new returns: with a pool_id, some path contains it.
TrialCtxs ==
    {ctx \in [pool_id : {NoPool} \cup PoolIds, buy_paths : PathLists,
              sell_paths : PathLists] :
        ctx.pool_id # NoPool =>
            \/ \E i \in DOMAIN ctx.buy_paths : contains_pool(ctx.buy_paths[i], ctx.pool_id)
            \/ \E i \in DOMAIN ctx.sell_paths : contains_pool(ctx.sell_paths[i], ctx.pool_id)}

TrialFrame(ctx, stage, ok, best_buy_path, trade_paths, path, profit) ==
    [op |-> "trial", pc |-> "done", pool_id |-> ctx.pool_id,
     buy_paths |-> ctx.buy_paths, sell_paths |-> ctx.sell_paths,
     stage |-> stage, ok |-> ok, best_buy_path |-> best_buy_path,
     trade_paths |-> trade_paths, path |-> path, profit |-> profit]

\* The results of the simulations of n paths and the order they are joined in.
Simulations(n) ==
    [results : [1..n -> {TradeErr, TradeOk(MaxAmountOut)}], order : JoinOrders(1..n)]

\* The sell stage of a trial: the best route, and its profit, which is
\* amount_out - amount_in (no gas cost) and is reported when it is positive.
TrialSell(ctx, amount_in, best_buy_path, trade_paths, sim) ==
    LET best == find_best_path_exact_in(trade_paths, sim.results, sim.order)
        profit == best.amount_out - amount_in
    IN  IF ~best.ok
        THEN TrialFrame(ctx, "sell", FALSE, best_buy_path, trade_paths, <<>>, 0)
        ELSE IF profit <= 0
        THEN TrialFrame(ctx, "return", TRUE, best_buy_path, trade_paths, <<>>, 0)
        ELSE TrialFrame(ctx, "return", TRUE, best_buy_path, trade_paths,
                        best.path, profit)

\* TrialCtx::trial(amount_in) when the buy simulations go as `buy`.
TrialOutcomes(ctx, amount_in, buy) ==
    LET best_buy_res == find_best_path_exact_in(ctx.buy_paths, buy.results, buy.order)
        best_buy_path == best_buy_res.path
        trade_paths == TradePaths(best_buy_path, ctx.sell_paths, ctx.pool_id, 1)
    IN  IF ~best_buy_res.ok
        THEN {TrialFrame(ctx, "buy", FALSE, <<>>, <<>>, <<>>, 0)}
        ELSE IF trade_paths = <<>>
        THEN {TrialFrame(ctx, "routes", FALSE, best_buy_path, <<>>, <<>>, 0)}
        ELSE {TrialSell(ctx, amount_in, best_buy_path, trade_paths, sim) :
                 sim \in Simulations(Len(trade_paths))}

\* A trial context has just been built by TrialCtx::new.
TrialInit ==
    /\ now = 0
    /\ map = {}
    /\ heap = {}
    /\ generation_counter = 0
    /\ channel = <<>>
    /\ recent_arbs = <<>>
    /\ last \in {[op |-> "trial", pc |-> "call", pool_id |-> ctx.pool_id,
                  buy_paths |-> ctx.buy_paths, sell_paths |-> ctx.sell_paths] :
                     ctx \in TrialCtxs}

Trial ==
    /\ last.op = "trial" /\ last.pc = "call"
    /\ \E amount_in \in 1..MaxAmountOut :
         last' \in UNION {TrialOutcomes(last, amount_in, buy) :
                             buy \in Simulations(Len(last.buy_paths))}
    /\ UNCHANGED <<now, map, heap, generation_counter, channel, recent_arbs>>

SpecTrial == TrialInit /\ [][Trial]_vars

\* ----------------------------------------------------- the replay simulator

\* The capacity of the notification channel and the quota of short ticks.
NotifierCapacity == 100
QuickUpdateQuota == 50

\* `while receiver.try_recv().is_ok() { quick_update_times = 50 }` when the
\* channel holds `pending` notifications.
DrainKeepsQuota(pending, quick_update_times) == quick_update_times

Drain(pending, quick_update_times) ==
    IF pending > 0 THEN QuickUpdateQuota ELSE quick_update_times

\* The end of an iteration of the update loop: the next interval and the
\* quota left.
UpdateInterval(quick_update_times) ==
    IF quick_update_times > 0
    THEN [current_interval |-> "short", quick_update_times |-> quick_update_times - 1]
    ELSE [current_interval |-> "long", quick_update_times |-> quick_update_times]

\* ReplaySimulator::new_slow has made the channel and started the update
\* loop, which is about to sleep its first interval.  `since` counts the
\* ticks after the last one that drained a notification and `notified` tells
\* whether any tick has.
ReplayFrame(op, pending, blocked, quick, interval, notified, since, drained) ==
    [op |-> op, pending |-> pending, blocked |-> blocked,
     quick_update_times |-> quick, current_interval |-> interval,
     notified |-> notified, since |-> since, drained |-> drained]

ReplayInit ==
    /\ now = 0
    /\ map = {}
    /\ heap = {}
    /\ generation_counter = 0
    /\ channel = <<>>
    /\ recent_arbs = <<>>
    /\ last = ReplayFrame("new_slow", 0, FALSE, 0, "long", FALSE, 0, 0)

IsReplay == last.op \in {"new_slow", "send", "tick"}

\* The worker has submitted a bid and runs `update_notifier.send(()).await`:
\* the notification is queued if the channel has room, and the worker waits
\* for room otherwise.
NotifySend ==
    /\ IsReplay
    /\ ~last.blocked
    /\ last' = IF last.pending < NotifierCapacity
               THEN [last EXCEPT !.op = "send", !.pending = @ + 1]
               ELSE [last EXCEPT !.op = "send", !.blocked = TRUE]
    /\ UNCHANGED <<now, map, heap, generation_counter, channel, recent_arbs>>

\* The sleep of the update loop ends and the loop runs one iteration.  A
\* worker waiting for room sends as soon as the drain makes some: its
\* notification is received by this drain (late = 0) or stays queued for the
\* next (late = 1).
UpdateTick ==
    /\ IsReplay
    /\ \E late \in {0, 1} :
         /\ late = 1 => last.blocked
         /\ LET quick == Drain(last.pending, last.quick_update_times)
                next == UpdateInterval(quick)
            IN  last' = ReplayFrame("tick", IF last.blocked THEN late ELSE 0,
                                    FALSE, next.quick_update_times,
                                    next.current_interval,
                                    last.notified \/ last.pending > 0,
                                    IF last.pending > 0 THEN 0
                                    ELSE IF last.since < QuickUpdateQuota
                                    THEN last.since + 1 ELSE last.since,
                                    last.pending)
    /\ UNCHANGED <<now, map, heap, generation_counter, channel, recent_arbs>>

ReplayNext == NotifySend \/ UpdateTick

SpecReplay == ReplayInit /\ [][ReplayNext]_vars

\* ------------------------------------------------ the sealed-auction states

\* Every Trader::new makes its own Shio, with its own state_idx; the tasks of
\* one Trader share its Shio.
Shios == 1..MaxShio
BidTasks == Shios \X (1..MaxTasks)
\* A task that is not inside next_state holds no index.
NoIdx == 0 - 1

\* The end of next_state for the value fetch_add returned: the index used
\* and whether state_idx is stored to.
Wrap(idx) ==
    IF idx >= MaxStates THEN [idx |-> 0, store |-> TRUE]
    ELSE [idx |-> idx, store |-> FALSE]

ShioFrame(op, state_idx, fetched, shio, pick, prev) ==
    [op |-> op, state_idx |-> state_idx, fetched |-> fetched, shio |-> shio,
     pick |-> pick, prev |-> prev]

\* The Traders have been made: every state_idx is 0 and no bid was built.
ShioInit ==
    /\ now = 0
    /\ map = {}
    /\ heap = {}
    /\ generation_counter = 0
    /\ channel = <<>>
    /\ recent_arbs = <<>>
    /\ last = ShioFrame("new", [s \in Shios |-> 0], [t \in BidTasks |-> NoIdx],
                        NoIdx, NoIdx, NoIdx)

IsShio == last.op \in {"new", "fetch_add", "next_state"}

\* A task enters next_state: `state_idx.fetch_add(1, Relaxed)`.
FetchAdd(t) ==
    /\ IsShio
    /\ last.fetched[t] = NoIdx
    /\ last' = [last EXCEPT !.op = "fetch_add",
                            !.state_idx[t[1]] = @ + 1,
                            !.fetched[t] = last.state_idx[t[1]]]
    /\ UNCHANGED <<now, map, heap, generation_counter, channel, recent_arbs>>

\* The task finishes next_state: the bounds test, the store of 1 when the
\* index is out of bounds, and the object picked for the bid.
NextState(t) ==
    /\ IsShio
    /\ last.fetched[t] # NoIdx
    /\ LET w == Wrap(last.fetched[t])
       IN  last' = ShioFrame("next_state",
                             IF w.store THEN [last.state_idx EXCEPT ![t[1]] = 1]
                             ELSE last.state_idx,
                             [last.fetched EXCEPT ![t] = NoIdx],
                             t[1], w.idx, last.pick)
    /\ UNCHANGED <<now, map, heap, generation_counter, channel, recent_arbs>>

ShioNext == \E t \in BidTasks : FetchAdd(t) \/ NextState(t)

SpecShio == ShioInit /\ [][ShioNext]_vars

\* ----------------------------------------------------------- the epoch cache

\* A SimEpoch, and the `None` of the strategy's Option<SimEpoch>.
SimEpoch(start) ==
    [some |-> TRUE, epoch_start_timestamp |-> start,
     epoch_duration_ms |-> EpochDuration]
NoEpoch == [some |-> FALSE, epoch_start_timestamp |-> 0, epoch_duration_ms |-> 0]

\* common::get_latest_epoch: the epoch the chain is in at wall-clock t.
ChainEpoch(t) == SimEpoch((t \div EpochDuration) * EpochDuration)

\* SimEpoch::is_stale at wall-clock t.
is_stale(epoch, t) ==
    t < epoch.epoch_start_timestamp + epoch.epoch_duration_ms

EpochFrame(op, clock, epoch, before, fetched, ok, returned) ==
    [op |-> op, clock |-> clock, epoch |-> epoch, before |-> before,
     fetched |-> fetched, ok |-> ok, returned |-> returned]

\* ArbStrategy::new has fetched the epoch.
EpochInit ==
    /\ now = 0
    /\ map = {}
    /\ heap = {}
    /\ generation_counter = 0
    /\ channel = <<>>
    /\ recent_arbs = <<>>
    /\ last = EpochFrame("new", 0, ChainEpoch(0), NoEpoch, TRUE, TRUE, ChainEpoch(0))

IsEpoch == last.op \in {"new", "clock", "get_latest_epoch"}

\* The wall clock advances.
EpochClock ==
    /\ IsEpoch
    /\ last.clock < MaxClock
    /\ last' = [last EXCEPT !.op = "clock", !.clock = @ + 1]
    /\ UNCHANGED <<now, map, heap, generation_counter, channel, recent_arbs>>

\* ArbStrategy::get_latest_epoch; the fetch from chain succeeds or fails.
GetLatestEpoch ==
    /\ IsEpoch
    /\ \E rpc_ok \in BOOLEAN :
         last' =
            IF last.epoch.some /\ ~is_stale(last.epoch, last.clock)
            THEN EpochFrame("get_latest_epoch", last.clock, last.epoch,
                            last.epoch, FALSE, TRUE, last.epoch)
            ELSE IF rpc_ok
            THEN EpochFrame("get_latest_epoch", last.clock,
                            ChainEpoch(last.clock), last.epoch, TRUE, TRUE,
                            ChainEpoch(last.clock))
            ELSE EpochFrame("get_latest_epoch", last.clock, NoEpoch,
                            last.epoch, TRUE, FALSE, NoEpoch)
    /\ UNCHANGED <<now, map, heap, generation_counter, channel, recent_arbs>>

EpochNext == EpochClock \/ GetLatestEpoch

SpecEpoch == EpochInit /\ [][EpochNext]_vars

\* -------------------------------------------------- the pool indexer's files

\* An event cursor is the id of the last event processed; the cursor `None`
\* is 0.  A cursors file that was truncated and not written is Truncated.
NoCursor == 0
Truncated == 0 - 1

\* query_events(filter, cursor): the ids of the next page.
Page(cursor, chain_len) ==
    [i \in 1..Min2(PageSize, chain_len - cursor) |-> cursor + i]

\* The pools of a page: the events sui_event_to_pool accepts, in order.
RECURSIVE PagePools(_, _, _)
PagePools(page, invalid, k) ==
    IF k > Len(page) THEN <<>>
    ELSE (IF page[k] \in invalid THEN <<>> ELSE <<page[k]>>)
             \o PagePools(page, invalid, k + 1)

\* How a flush can go: it completes; the pools file cannot be opened; a
\* write to it fails after `written` records; the cursors file cannot be
\* opened; the cursors file is truncated and the write to it fails.
FlushOutcomes(pools) ==
    {[kind |-> "ok", written |-> Len(pools)],
     [kind |-> "pools_open", written |-> 0],
     [kind |-> "cursors_open", written |-> Len(pools)],
     [kind |-> "cursors_write", written |-> Len(pools)]}
    \cup {[kind |-> "pools_write", written |-> w] : w \in 0..(Len(pools) - 1)}

\* FileDB::flush(protocol, pools, cursor) with the outcome `out`: the pools
\* file, the processed_cursors in memory and the cursors file after it.
flush(db, pools, cursor, out) ==
    [pools_file |-> db.pools_file \o SubSeq(pools, 1, out.written),
     processed_cursor |->
        IF out.kind \in {"ok", "cursors_open", "cursors_write"} THEN cursor
        ELSE db.processed_cursor,
     cursors_file |->
        IF out.kind = "ok" THEN cursor
        ELSE IF out.kind = "cursors_write" THEN Truncated
        ELSE db.cursors_file]

BackfillFrame(op, up, chain_len, invalid, db, failures, ok) ==
    [op |-> op, up |-> up, chain_len |-> chain_len, invalid |-> invalid,
     pools_file |-> db.pools_file, processed_cursor |-> db.processed_cursor,
     cursors_file |-> db.cursors_file, failures |-> failures, ok |-> ok]

\* The indexer starts on empty files; which events of the chain do not
\* describe a pool is a property of the chain.
BackfillInit ==
    /\ now = 0
    /\ map = {}
    /\ heap = {}
    /\ generation_counter = 0
    /\ channel = <<>>
    /\ recent_arbs = <<>>
    /\ \E invalid \in SUBSET (1..MaxEvents) :
         last = BackfillFrame("new", TRUE, 0, invalid,
                              [pools_file |-> <<>>, processed_cursor |-> NoCursor,
                               cursors_file |-> NoCursor], 0, TRUE)

IsBackfill == last.op \in {"new", "event", "backfill", "restart"}

\* A pool is created on chain.
ChainEvent ==
    /\ IsBackfill
    /\ last.chain_len < MaxEvents
    /\ last' = [last EXCEPT !.op = "event", !.chain_len = @ + 1]
    /\ UNCHANGED <<now, map, heap, generation_counter, channel, recent_arbs>>

\* One iteration of the loop of backfill_pools_for_protocol, from the cursor
\* the database holds in memory: a page is turned into pools and flushed.
BackfillPage ==
    /\ IsBackfill
    /\ last.up
    /\ LET page == Page(last.processed_cursor, last.chain_len)
           pools == PagePools(page, last.invalid, 1)
       IN  /\ page # <<>>
           /\ \E out \in FlushOutcomes(pools) :
                /\ out.kind # "ok" => last.failures < MaxFailures
                /\ last' = BackfillFrame("backfill", TRUE, last.chain_len,
                                         last.invalid,
                                         flush(last, pools, page[Len(page)], out),
                                         IF out.kind = "ok" THEN last.failures
                                         ELSE last.failures + 1,
                                         out.kind = "ok")
    /\ UNCHANGED <<now, map, heap, generation_counter, channel, recent_arbs>>

\* The process stops, by a crash or otherwise, and is started again:
\* FileDB::new reads the cursors file, and fails on a truncated one.
Restart ==
    /\ IsBackfill
    /\ last.up
    /\ last.failures < MaxFailures
    /\ last' = [last EXCEPT !.op = "restart",
                            !.failures = @ + 1,
                            !.up = last.cursors_file # Truncated,
                            !.ok = last.cursors_file # Truncated,
                            !.processed_cursor =
                                IF last.cursors_file # Truncated
                                THEN last.cursors_file ELSE @]
    /\ UNCHANGED <<now, map, heap, generation_counter, channel, recent_arbs>>

BackfillNext == ChainEvent \/ BackfillPage \/ Restart

SpecBackfill == BackfillInit /\ [][BackfillNext]_vars

\* ------------------------------------------------------------- the PoolCache

\* The token lists of a pool: distinct token types, in any order.
TokenLists ==
    {t \in UNION {[1..n -> 1..MaxTokenTypes] : n \in 1..MaxTokens} :
        \A i, j \in DOMAIN t : t[i] = t[j] => i = j}

\* A Pool; two pools are equal when their object ids are.
IndexPools == [pool : 1..MaxIndexPools, tokens : TokenLists]

token01_key(token0_type, token1_type) ==
    IF token0_type < token1_type THEN <<token0_type, token1_type>>
    ELSE <<token1_type, token0_type>>

\* Pool::token01_pairs, as the sequence of index pairs (i, j), i < j.
token01_pairs(pool) ==
    LET n == Len(pool.tokens)
        S == {ij \in (1..n) \X (1..n) : ij[1] < ij[2]}
        Rank(ij) == Cardinality({x \in S : x[1] < ij[1]
                                    \/ (x[1] = ij[1] /\ x[2] <= ij[2])})
    IN  [k \in 1..Cardinality(S) |-> CHOOSE ij \in S : Rank(ij) = k]

\* HashSet::insert under a key keeps a pool of the same id that is there.
SetInsert(entries, key, pool) ==
    IF \E e \in entries : e.key = key /\ e.pool.pool = pool.pool THEN entries
    ELSE entries \cup {[key |-> key, pool |-> pool]}

\* DashMap::insert replaces the pool under the id.
PoolMapInsert(pool_map, pool) ==
    {q \in pool_map : q.pool # pool.pool} \cup {pool}

\* The map operations that index one pool, in program order: one per token,
\* one per pair, and the pool_map insert: step `k` of them applied to the
\* cache.
IndexSteps(pool) ==
    Len(pool.tokens) + Len(token01_pairs(pool)) + 1

IndexStep(cache, pool, k) ==
    LET n == Len(pool.tokens)
        pairs == token01_pairs(pool)
    IN  IF k <= n
        THEN [cache EXCEPT !.token_pools = SetInsert(@, pool.tokens[k], pool)]
        ELSE IF k <= n + Len(pairs)
        THEN [cache EXCEPT !.token01_pools =
                 SetInsert(@, token01_key(pool.tokens[pairs[k - n][1]],
                                          pool.tokens[pairs[k - n][2]]), pool)]
        ELSE [cache EXCEPT !.pool_map = PoolMapInsert(@, pool)]

RECURSIVE IndexAll(_, _, _)
IndexAll(cache, pool, k) ==
    IF k > IndexSteps(pool) THEN cache
    ELSE IndexAll(IndexStep(cache, pool, k), pool, k + 1)

EmptyCache == [token_pools |-> {}, token01_pools |-> {}, pool_map |-> {}]

\* FileDB::load_token_pools on the lines of a pools file.
RECURSIVE load_token_pools(_, _, _)
load_token_pools(cache, lines, k) ==
    IF k > Len(lines) THEN cache
    ELSE load_token_pools(IndexAll(cache, lines[k], 1), lines, k + 1)

NoIndexPool == [pool |-> 0, tokens |-> <<>>]

PoolCacheFrame(op, cache, writing, step) ==
    [op |-> op, token_pools |-> cache.token_pools,
     token01_pools |-> cache.token01_pools, pool_map |-> cache.pool_map,
     writing |-> writing, step |-> step]

\* DexIndexer::new has loaded the cache from a pools file of at most one
\* line and shares it with the readers and with the strategy.
PoolCacheInit ==
    /\ now = 0
    /\ map = {}
    /\ heap = {}
    /\ generation_counter = 0
    /\ channel = <<>>
    /\ recent_arbs = <<>>
    /\ \E lines \in {<<>>} \cup {<<q>> : q \in IndexPools} :
         last = PoolCacheFrame("load_token_pools",
                               load_token_pools(EmptyCache, lines, 1),
                               NoIndexPool, 0)

IsPoolCache == last.op \in {"load_token_pools", "pool", "insert"}

\* backfill_pools_for_protocol turns the next event into a pool that is not
\* in the cache yet.
BackfillPool ==
    /\ IsPoolCache
    /\ last.writing = NoIndexPool
    /\ \E pool \in IndexPools :
         /\ \A q \in last.pool_map : q.pool # pool.pool
         /\ last' = [last EXCEPT !.op = "pool", !.writing = pool, !.step = 1]
    /\ UNCHANGED <<now, map, heap, generation_counter, channel, recent_arbs>>

\* backfill_pools_for_protocol performs its next map operation for the pool;
\* the readers of DexIndexer run between any two of them.
BackfillInsert ==
    /\ IsPoolCache
    /\ last.writing # NoIndexPool
    /\ LET cache == IndexStep(last, last.writing, last.step)
           done == last.step = IndexSteps(last.writing)
       IN  last' = PoolCacheFrame("insert", cache,
                                  IF done THEN NoIndexPool ELSE last.writing,
                                  IF done THEN 0 ELSE last.step + 1)
    /\ UNCHANGED <<now, map, heap, generation_counter, channel, recent_arbs>>

PoolCacheNext == BackfillPool \/ BackfillInsert

SpecPoolCache == PoolCacheInit /\ [][PoolCacheNext]_vars

\* ----------------------------------------------- the flash-loan transaction

\* A Dex of a path: its protocol and its pool.  Cetus and KriyaClmm support
\* flash loans, the other protocols (Turbos stands for them) do not.
Protocols == {"cetus", "kriya_clmm", "turbos"}
Dexes == [protocol : Protocols, pool : 1..MaxDexPools]
support_flashloan(dex) == dex.protocol \in {"cetus", "kriya_clmm"}
\* The lending adapter, Navi.
NaviLender == [protocol |-> "navi", pool |-> 0]

\* A command of the programmable transaction: what it does, whose package
\* it calls, and the command whose loan receipt it takes by value (0: none).
Cmd(kind, dex, receipt) == [kind |-> kind, dex |-> dex, receipt |-> receipt]

\* extend_flashloan_tx of the lender: Cetus and KriyaClmm flash-swap on the
\* pool, Navi lends; the receipt is a result of the first command appended.
extend_flashloan_tx(ctx, lender) ==
    ctx \o <<Cmd("borrow", lender, 0)>>
        \o (IF lender.protocol = "kriya_clmm"
            THEN <<Cmd("balance_destroy_zero", lender, 0),
                   Cmd("coin_from_balance", lender, 0)>>
            ELSE IF lender.protocol = "navi"
            THEN <<Cmd("coin_from_balance", lender, 0)>>
            ELSE <<>>)

\* extend_trade_tx of a leg.
extend_trade_tx(ctx, dex) == ctx \o <<Cmd("swap", dex, 0)>>

\* extend_repay_tx of the lender with the receipt of command `receipt`.
extend_repay_tx(ctx, lender, receipt) ==
    ctx \o (IF lender.protocol = "kriya_clmm"
            THEN <<Cmd("swap_receipt_debts", lender, 0),
                   Cmd("split_coin", lender, 0),
                   Cmd("repay", lender, receipt)>>
            ELSE IF lender.protocol = "navi"
            THEN <<Cmd("coin_into_balance", lender, 0),
                   Cmd("repay", lender, receipt),
                   Cmd("coin_from_balance", lender, 0)>>
            ELSE <<Cmd("repay", lender, receipt)>>)

\* Who lends: the first leg's pool when it supports flash loans, Navi
\* otherwise; the repay makes the same choice.
FlashLender(first_dex) ==
    IF support_flashloan(first_dex) THEN first_dex ELSE NaviLender

RepayLenderNavi(first_dex) == NaviLender

RepayLender(first_dex) ==
    IF support_flashloan(first_dex) THEN first_dex ELSE NaviLender

RECURSIVE SwapLegs(_, _, _)
SwapLegs(ctx, path, k) ==
    IF k > Len(path) THEN ctx
    ELSE SwapLegs(extend_trade_tx(ctx, path[k]), path, k + 1)

\* The commands of the transaction get_flashloan_trade_tx builds for a path
\* and a source; the digest loop that follows changes the gas budget only.
FlashloanCommands(path, shio) ==
    LET first_dex == path[1]
        flashed == extend_flashloan_tx(<<>>, FlashLender(first_dex))
        receipt == 1
        swapped == SwapLegs(flashed, path,
                            IF support_flashloan(first_dex) THEN 2 ELSE 1)
        repaid == extend_repay_tx(swapped, RepayLender(first_dex), receipt)
        bid == IF shio
               THEN repaid \o <<Cmd("split_coin", NaviLender, 0),
                                Cmd("submit_bid", NaviLender, 0)>>
               ELSE repaid
    IN  bid \o <<Cmd("transfer", NaviLender, 0)>>

FlashPaths == UNION {[1..n -> Dexes] : n \in 1..MAX_HOP_COUNT}

\* A caller is about to call get_flashloan_trade_tx.
FlashloanInit ==
    /\ now = 0
    /\ map = {}
    /\ heap = {}
    /\ generation_counter = 0
    /\ channel = <<>>
    /\ recent_arbs = <<>>
    /\ last \in {[op |-> "flashloan_tx", pc |-> "call", path |-> path,
                  shio |-> shio] : path \in FlashPaths, shio \in BOOLEAN}

\* get_flashloan_trade_tx returns the transaction, or an error when one of
\* the extend calls fails.
BuildFlashloanTx ==
    /\ last.op = "flashloan_tx" /\ last.pc = "call"
    /\ \E ok \in BOOLEAN :
         last' = [op |-> "flashloan_tx", pc |-> "done", path |-> last.path,
                  shio |-> last.shio, ok |-> ok,
                  tx |-> IF ok THEN FlashloanCommands(last.path, last.shio)
                         ELSE <<>>]
    /\ UNCHANGED <<now, map, heap, generation_counter, channel, recent_arbs>>

SpecFlashloan == FlashloanInit /\ [][BuildFlashloanTx]_vars

\* --------------------------------------------------------- the OverrideCache

SUI_CLOCK_OBJECT_ID == 0
OBJECT_START_VERSION == 1
ObjectIds == SUI_CLOCK_OBJECT_ID..MaxObjects
Versions == OBJECT_START_VERSION..MaxVersion

\* An Object, tagged with the store it is a copy from, and no object.
Obj(id, version, origin) ==
    [some |-> TRUE, id |-> id, version |-> version, origin |-> origin]
NoObj == [some |-> FALSE, id |-> 0, version |-> 0, origin |-> "none"]

\* An ObjectReadResult of the overlay: an object or a deleted shared object.
OverrideEntries ==
    {[id |-> id, deleted |-> FALSE, version |-> v] :
        id \in ObjectIds \ {SUI_CLOCK_OBJECT_ID}, v \in Versions}
    \cup {[id |-> id, deleted |-> TRUE, version |-> 0] :
            id \in ObjectIds \ {SUI_CLOCK_OBJECT_ID}}
NoOverride == [id |-> 0 - 1, deleted |-> FALSE, version |-> 0]

\* OverrideCache::get_override: the clock is always overridden, by a clock
\* object made on the spot; otherwise the first entry with the id.
RECURSIVE FindOverride(_, _, _)
FindOverride(overrides, object_id, k) ==
    IF k > Len(overrides) THEN NoOverride
    ELSE IF overrides[k].id = object_id THEN overrides[k]
    ELSE FindOverride(overrides, object_id, k + 1)

get_override(overrides, object_id) ==
    IF object_id = SUI_CLOCK_OBJECT_ID
    THEN [id |-> SUI_CLOCK_OBJECT_ID, deleted |-> FALSE,
          version |-> OBJECT_START_VERSION]
    ELSE FindOverride(overrides, object_id, 1)

\* The fallback WritebackCache: `base` is the set of (id, version) it holds.
FallbackGetObjectByKey(base, object_id, version) ==
    IF <<object_id, version>> \in base THEN Obj(object_id, version, "base")
    ELSE NoObj

FallbackGetObject(base, object_id) ==
    IF \E v \in Versions : <<object_id, v>> \in base
    THEN LET latest == CHOOSE v \in Versions :
                 /\ <<object_id, v>> \in base
                 /\ \A w \in Versions : <<object_id, w>> \in base => w <= v
         IN  Obj(object_id, latest, "base")
    ELSE NoObj

\* ObjectCacheRead::get_object of the OverrideCache.
get_object(cache, id) ==
    LET o == get_override(cache.overrides, id)
    IN  IF o # NoOverride
        THEN IF o.deleted THEN NoObj ELSE Obj(id, o.version, "overlay")
        ELSE IF cache.fallback THEN FallbackGetObject(cache.base, id)
        ELSE NoObj

VersionAny(object_version, version) == TRUE

\* `object.version() == version`
VersionIs(object_version, version) == object_version = version

\* ObjectCacheRead::get_object_by_key of the OverrideCache.
get_object_by_key(cache, object_id, version) ==
    LET o == get_override(cache.overrides, object_id)
    IN  IF o # NoOverride /\ ~o.deleted /\ VersionIs(o.version, version)
        THEN Obj(object_id, o.version, "overlay")
        ELSE IF o # NoOverride /\ o.deleted THEN NoObj
        ELSE IF cache.fallback
        THEN FallbackGetObjectByKey(cache.base, object_id, version)
        ELSE NoObj

OverrideLists == UNION {[1..n -> OverrideEntries] : n \in 0..MaxOverrides}

\* OverrideCache::new(fallback, overrides) over a base store.
OverrideInit ==
    /\ now = 0
    /\ map = {}
    /\ heap = {}
    /\ generation_counter = 0
    /\ channel = <<>>
    /\ recent_arbs = <<>>
    /\ last \in [op : {"override_cache"}, pc : {"call"},
                 overrides : OverrideLists, fallback : BOOLEAN,
                 base : SUBSET (ObjectIds \X Versions)]

OverrideDone(op, id, version, result, versioned_cache) ==
    [op |-> op, pc |-> "done", overrides |-> last.overrides,
     fallback |-> last.fallback, base |-> last.base, id |-> id,
     version |-> version, result |-> result,
     versioned_cache |-> versioned_cache]

\* The executor looks an object up by id; an object read from the fallback
\* is recorded in versioned_cache.
GetObject ==
    /\ last.op = "override_cache" /\ last.pc = "call"
    /\ \E id \in ObjectIds :
         LET result == get_object(last, id)
         IN  last' = OverrideDone("get_object", id, 0, result,
                                  IF result.some /\ result.origin = "base"
                                  THEN {<<id, result.version>>} ELSE {})
    /\ UNCHANGED <<now, map, heap, generation_counter, channel, recent_arbs>>

\* The executor looks an object up by id and version.
GetObjectByKey ==
    /\ last.op = "override_cache" /\ last.pc = "call"
    /\ \E id \in ObjectIds, version \in Versions :
         last' = OverrideDone("get_object_by_key", id, version,
                              get_object_by_key(last, id, version), {})
    /\ UNCHANGED <<now, map, heap, generation_counter, channel, recent_arbs>>

OverrideNext == GetObject \/ GetObjectByKey

SpecOverride == OverrideInit /\ [][OverrideNext]_vars

\* ----------------------------------------------------------- PathTradeResult

ProfitZeroUnlessRoundTrip(r) ==
    IF r.coin_in_type = SUI_COIN_TYPE /\ r.coin_out_type = SUI_COIN_TYPE
    THEN r.amount_out - r.amount_in - r.gas_cost
    ELSE 0

\* PathTradeResult::profit, for a result whose path goes from coin_in_type to
\* coin_out_type.
profit(r) ==
    IF r.coin_in_type = SUI_COIN_TYPE
    THEN IF r.coin_out_type = SUI_COIN_TYPE
         THEN r.amount_out - r.amount_in - r.gas_cost
         ELSE 0 - r.gas_cost - r.amount_in
    ELSE 0

PathTradeResults ==
    [coin_in_type : CoinTypes, coin_out_type : CoinTypes,
     amount_in : 0..MaxTradeAmount, amount_out : 0..MaxTradeAmount,
     gas_cost : (0 - MaxGasCost)..MaxGasCost]

\* A PathTradeResult has been made by PathTradeResult::new.
ProfitInit ==
    /\ now = 0
    /\ map = {}
    /\ heap = {}
    /\ generation_counter = 0
    /\ channel = <<>>
    /\ recent_arbs = <<>>
    /\ last \in {[op |-> "profit", pc |-> "call", res |-> r] :
                    r \in PathTradeResults}

Profit ==
    /\ last.op = "profit" /\ last.pc = "call"
    /\ last' = [op |-> "profit", pc |-> "done", res |-> last.res,
                profit |-> profit(last.res)]
    /\ UNCHANGED <<now, map, heap, generation_counter, channel, recent_arbs>>

SpecProfit == ProfitInit /\ [][Profit]_vars

\* ------------------------------------------------------ the bid of a source

\* Shio::submit_bid: `ensure!(bid_amount > 0, ..)`; building the transaction
\* of a Shio source fails on a zero bid.
SubmitBidFails(source) == is_shio(source) /\ bid_amount(source) = 0

\* find_opportunity has its best trial, of profit `profit`, for a source.
BidInit ==
    /\ now = 0
    /\ map = {}
    /\ heap = {}
    /\ generation_counter = 0
    /\ channel = <<>>
    /\ recent_arbs = <<>>
    /\ last \in {[op |-> "bid", pc |-> "call", source |-> SourceOf(trigger, 1000),
                  profit |-> best_profit, time_ms |-> time_ms] :
                    trigger \in Triggers, best_profit \in 1..MaxProfit,
                    time_ms \in ArbFoundClockMs}

\* The tail of find_opportunity: the source is stamped and given its bid and
\* the final transaction is built.
FindOpportunityBid ==
    /\ last.op = "bid" /\ last.pc = "call"
    /\ \E h \in DigestFunctions :
         LET arb_result == find_opportunity(h, NoGasCoins, last.source,
                                            last.profit, last.time_ms)
             failed == SubmitBidFails(arb_result.source)
         IN  /\ LoopReturned(h, arb_result.tx_data, arb_result.source)
             /\ last' = [op |-> "bid", pc |-> "done", source |-> last.source,
                         profit |-> last.profit, time_ms |-> last.time_ms,
                         ok |-> ~failed,
                         arb_source |-> arb_result.source,
                         tx_data |-> IF failed THEN NoTx ELSE arb_result.tx_data]
    /\ UNCHANGED <<now, map, heap, generation_counter, channel, recent_arbs>>

SpecBid == BidInit /\ [][FindOpportunityBid]_vars

\* ------------------------------------------- one coin inserted twice, popped

TwiceFrame(op, inserts, pops) == [op |-> op, inserts |-> inserts, pops |-> pops]

\* A new ArbCache.
TwiceInit ==
    /\ now = 0
    /\ map = {}
    /\ heap = {}
    /\ generation_counter = 0
    /\ channel = <<>>
    /\ recent_arbs = <<>>
    /\ last = TwiceFrame("new", <<>>, <<>>)

IsTwice == last.op \in {"new", "tick", "insert", "pop_one"}

TwiceTick ==
    /\ IsTwice
    /\ now < MaxTime
    /\ now' = now + 1
    /\ last' = [last EXCEPT !.op = "tick"]
    /\ UNCHANGED <<map, heap, generation_counter, channel, recent_arbs>>

\* ArbCache::insert, the second time for the coin of the first.
TwiceInsert ==
    /\ IsTwice
    /\ Len(last.inserts) < 2
    /\ \E coin \in Coins, trigger \in Triggers, start \in HandlerClockMs :
         /\ last.inserts # <<>> => coin = last.inserts[1].item.coin
         /\ SetCache(CacheInsert(Cache, now, coin, trigger.pool_id,
                                 trigger.digest, SourceOf(trigger, start)))
         /\ last' = TwiceFrame("insert",
                       Append(last.inserts,
                              [item |-> [coin |-> coin, pool_id |-> trigger.pool_id,
                                         tx_digest |-> trigger.digest,
                                         source |-> SourceOf(trigger, start)],
                               at |-> now]),
                       last.pops)
    /\ UNCHANGED <<now, channel, recent_arbs>>

\* ArbCache::pop_one, after the two inserts.
TwicePopOne ==
    /\ IsTwice
    /\ Len(last.inserts) = 2
    /\ Len(last.pops) < 2
    /\ LET r == pop_one(Cache, now)
       IN  /\ SetCache(r.cache)
           /\ last' = TwiceFrame("pop_one", last.inserts,
                                 Append(last.pops, [item |-> r.item, at |-> now]))
    /\ UNCHANGED <<now, channel, recent_arbs>>

TwiceNext == TwiceTick \/ TwiceInsert \/ TwicePopOne

SpecTwice == TwiceInit /\ [][TwiceNext]_vars

\* ------------------------------------------------- the loop of one worker

\* How Arb::find_opportunity ends: no profitable trial, an error while the
\* final transaction is built, or an ArbResult.
FindOutcomes == {"no_profit", "build_failed", "found"}

\* How Worker::dry_run_tx_data ends: each `?` and `ensure!` of it, or Ok.
DryRunOutcomes ==
    {"fix_object_refs_failed", "simulate_failed", "status_not_ok",
     "no_balance_change", "balance_not_increased", "ok"}

\* arbitrage_one_coin: Some exactly when find_opportunity returned Ok.
arbitrage_one_coin(found) == found = "found"

RunItems ==
    {[coin |-> coin, pool_id |-> trigger.pool_id, tx_digest |-> trigger.digest,
      source |-> SourceOf(trigger, start)] :
        coin \in Coins, trigger \in Triggers, start \in HandlerClockMs}

\* thread: where the worker's thread is ("recv" in the select of run,
\* "send" in update_notifier.send, "panicked" once it unwound); dedicated:
\* dedicated_simulator is Some; receiver_dropped: the replay simulator's
\* update thread has ended and dropped the receiver; pending: notifications
\* in the bounded channel.
RunFrame(op, thread, dedicated, receiver_dropped, pending, sent, handled, outcome) ==
    [op |-> op, thread |-> thread, dedicated |-> dedicated,
     receiver_dropped |-> receiver_dropped, pending |-> pending,
     sent |-> sent, handled |-> handled, outcome |-> outcome]

\* A worker that waits for its first item; earlier bids of the other workers
\* may have left notifications in the channel.
RunInit ==
    /\ now = 0
    /\ map = {}
    /\ heap = {}
    /\ generation_counter = 0
    /\ channel = <<>>
    /\ recent_arbs = <<>>
    /\ \E dedicated \in BOOLEAN, pending \in {0, NotifierCapacity - 1} :
         /\ ~dedicated => pending = 0
         /\ last = RunFrame("spawn", "recv", dedicated, FALSE, pending, 0, 0, "none")

IsRun == last.op \in {"spawn", "send_item", "handle", "notify", "drain", "loop_ends"}

\* The dispatch loop of process_event sends an item to the workers.
RunSendItem ==
    /\ IsRun
    /\ last.sent < MaxItems
    /\ \E arb_item \in RunItems : channel' = Append(channel, arb_item)
    /\ last' = [last EXCEPT !.op = "send_item", !.sent = @ + 1]
    /\ UNCHANGED <<now, map, heap, generation_counter, recent_arbs>>

\* Worker::run takes an item and Worker::handle_arb_item handles it up to
\* the submissions: Ok(()) without an opportunity or after a failed dry-run,
\* and on to update_notifier.send with a dedicated simulator.
RunHandle ==
    /\ IsRun
    /\ last.thread = "recv"
    /\ channel # <<>>
    /\ channel' = Tail(channel)
    /\ \E found \in FindOutcomes, dry_run \in DryRunOutcomes :
         LET outcome == IF ~arbitrage_one_coin(found) THEN "no_opportunity"
                        ELSE IF dry_run # "ok" THEN "dry_run_failed"
                        ELSE "submitted"
         IN  last' = [last EXCEPT
                 !.op = "handle",
                 !.handled = @ + 1,
                 !.outcome = outcome,
                 !.thread = IF outcome = "submitted" /\ last.dedicated
                            THEN "send" ELSE "recv"]
    /\ UNCHANGED <<now, map, heap, generation_counter, recent_arbs>>

\* dedicated_sim.update_notifier.send(()).await.unwrap(): the send waits
\* while the channel is full, fails once the receiver is dropped, and the
\* unwrap of the failure unwinds the worker's thread.
RunNotify ==
    /\ IsRun
    /\ last.thread = "send"
    /\ \/ /\ last.receiver_dropped
          /\ last' = [last EXCEPT !.op = "notify", !.thread = "panicked",
                                  !.outcome = "notify_failed"]
       \/ /\ ~last.receiver_dropped
          /\ last.pending < NotifierCapacity
          /\ last' = [last EXCEPT !.op = "notify", !.thread = "recv",
                                  !.pending = @ + 1, !.outcome = "notified"]
    /\ UNCHANGED <<now, map, heap, generation_counter, channel, recent_arbs>>

\* ReplaySimulator::spawn_update_loop wakes and drains the notifications.
RunDrain ==
    /\ IsRun
    /\ last.dedicated
    /\ ~last.receiver_dropped
    /\ last.pending > 0
    /\ last' = [last EXCEPT !.op = "drain", !.pending = 0]
    /\ UNCHANGED <<now, map, heap, generation_counter, channel, recent_arbs>>

\* The update thread ends (update_underlying unwinds): spawn_update_loop owns
\* the receiver, which is dropped with it.
RunLoopEnds ==
    /\ IsRun
    /\ last.dedicated
    /\ ~last.receiver_dropped
    /\ last' = [last EXCEPT !.op = "loop_ends", !.receiver_dropped = TRUE,
                            !.pending = 0]
    /\ UNCHANGED <<now, map, heap, generation_counter, channel, recent_arbs>>

RunNext == RunSendItem \/ RunHandle \/ RunNotify \/ RunDrain \/ RunLoopEnds

\* One worker, the items sent to it and the replay simulator's update thread.
SpecRun == RunInit /\ [][RunNext]_vars

\* ------------------------------------------- the public-transaction socket

\* The four read_exact calls of one iteration, in order.
Reads == <<"effects_len", "effects", "events_len", "events">>

\* What follows four good reads: bincode::deserialize, serde_json::from_slice
\* and SuiTransactionBlockEffects::try_from, the first two with `continue`.
DecodeOutcomes == {"invalid_effects", "invalid_events", "not_converted", "yield"}

\* task: "stream" while the stream's loop runs, "panicked" once an expect
\* unwound it; conn: the Stream held by the loop; server: whether the socket
\* accepts connections.
CollectorFrame(op, task, conn, server, polls, yielded, outcome) ==
    [op |-> op, task |-> task, conn |-> conn, server |-> server,
     polls |-> polls, yielded |-> yielded, outcome |-> outcome]

\* get_event_stream returned a stream: its first connect succeeded.
CollectorInit ==
    /\ now = 0
    /\ map = {}
    /\ heap = {}
    /\ generation_counter = 0
    /\ channel = <<>>
    /\ recent_arbs = <<>>
    /\ last = CollectorFrame("get_event_stream", "stream", "open", "up", 0, 0, "none")

IsCollector ==
    last.op \in {"get_event_stream", "poll", "server_stops", "server_starts"}

\* PublicTxCollector::connect
connect(server) == IF server = "up" THEN "open" ELSE "failed"

\* The socket's server goes away: the reads on the connection fail from
\* here on.
ServerStops ==
    /\ IsCollector
    /\ last.server = "up"
    /\ last' = [last EXCEPT !.op = "server_stops", !.server = "down",
                            !.conn = "broken"]
    /\ UNCHANGED <<now, map, heap, generation_counter, channel, recent_arbs>>

ServerStarts ==
    /\ IsCollector
    /\ last.server = "down"
    /\ last' = [last EXCEPT !.op = "server_starts", !.server = "up"]
    /\ UNCHANGED <<now, map, heap, generation_counter, channel, recent_arbs>>

\* One iteration of the loop of get_event_stream: a failed read_exact is
\* followed by `conn = self.connect().await.expect(..)` and `continue`.
CollectorPoll ==
    /\ IsCollector
    /\ last.task = "stream"
    /\ last.polls < MaxPolls
    /\ \/ /\ last.conn = "broken"
          /\ \E i \in 1..Len(Reads) :
               LET conn == connect(last.server)
               IN  last' = [last EXCEPT
                       !.op = "poll",
                       !.polls = @ + 1,
                       !.outcome = Reads[i],
                       !.conn = IF conn = "failed" THEN "broken" ELSE conn,
                       !.task = IF conn = "failed" THEN "panicked" ELSE "stream"]
       \/ /\ last.conn = "open"
          /\ \E decoded \in DecodeOutcomes :
               last' = [last EXCEPT
                   !.op = "poll",
                   !.polls = @ + 1,
                   !.outcome = decoded,
                   !.yielded = IF decoded = "yield" THEN @ + 1 ELSE @]
    /\ UNCHANGED <<now, map, heap, generation_counter, channel, recent_arbs>>

CollectorNext == ServerStops \/ ServerStarts \/ CollectorPoll

\* The stream of PublicTxCollector and the server of its socket.
SpecCollector == CollectorInit /\ [][CollectorNext]_vars

\* --------------------------------------------------------- path finding

\* Coins of the pool graph: the native coin, a pegged coin and another one.
GraphCoins == {SUI_COIN_TYPE, "usdc", "coinX"}
pegged_coin_types == {SUI_COIN_TYPE, "usdc"}
is_native_coin(coin_type) == coin_type = SUI_COIN_TYPE
MIN_LIQUIDITY == 1000

\* The indexer's pools: two-token pools of a protocol whose adapter derives
\* the swap direction from coin_in_type (Cetus stands for it), and Aftermath
\* pools of two or three tokens.
PoolShapes ==
    {[protocol |-> p, tokens |-> t] :
        p \in {"cetus", "aftermath"},
        t \in {<<"coinX", SUI_COIN_TYPE>>, <<"usdc", SUI_COIN_TYPE>>,
               <<"coinX", "usdc">>}}
    \cup {[protocol |-> "aftermath", tokens |-> <<"coinX", "usdc", SUI_COIN_TYPE>>]}

\* A graph is the list of its pools; the object id of a pool is its index.
Graphs ==
    UNION {[1..n -> [shape : PoolShapes,
                     liquidity : {MIN_LIQUIDITY - 1, MIN_LIQUIDITY}]] :
              n \in 1..MaxGraphPools}

token_index(tokens, coin_type) ==
    IF \E i \in DOMAIN tokens : tokens[i] = coin_type
    THEN CHOOSE i \in DOMAIN tokens : tokens[i] = coin_type
    ELSE 0

\* A Dex: the direction it reports (coin_in_type, coin_out_type) and what its
\* swap call is built from.  Cetus keeps the pool's type parameters and
\* picks swap_a2b or swap_b2a by is_a2b(); Aftermath keeps the type
\* arguments <<coin_in, coin_out>> and the token indexes fixed in new().
DexNew(id, pool, coin_in_type, coin_out_type) ==
    [pool |-> id, protocol |-> pool.shape.protocol,
     liquidity |-> pool.liquidity,
     coin_in_type |-> coin_in_type, coin_out_type |-> coin_out_type,
     type_params |-> IF pool.shape.protocol = "aftermath"
                     THEN <<coin_in_type, coin_out_type>>
                     ELSE pool.shape.tokens,
     index_in |-> IF pool.shape.protocol = "aftermath"
                  THEN token_index(pool.shape.tokens, coin_in_type) ELSE 0,
     index_out |-> IF pool.shape.protocol = "aftermath"
                   THEN token_index(pool.shape.tokens, coin_out_type) ELSE 0]

\* new_dexes: one Dex of a two-token adapter, towards the other token; one
\* Aftermath Dex towards token_out_type when it is given (NoCoin: None), or
\* one per other token of the pool.
NoCoin == "none"
new_dexes(id, pool, token_in_type, token_out_type) ==
    LET tokens == pool.shape.tokens
    IN  IF pool.shape.protocol = "aftermath"
        THEN IF token_out_type # NoCoin
             THEN {DexNew(id, pool, token_in_type, token_out_type)}
             ELSE {DexNew(id, pool, token_in_type, tokens[j]) :
                      j \in {j \in DOMAIN tokens : tokens[j] # token_in_type}}
        ELSE {DexNew(id, pool, token_in_type,
                     IF tokens[1] = token_in_type THEN tokens[2] ELSE tokens[1])}

\* IndexerDexSearcher::find_dexes over get_pools_by_token and
\* get_pools_by_token01.
find_dexes(graph, token_in_type, token_out_type) ==
    LET has(id, coin) == token_index(graph[id].shape.tokens, coin) # 0
        pools == {id \in DOMAIN graph :
                     /\ has(id, token_in_type)
                     /\ token_out_type # NoCoin =>
                            (has(id, token_out_type)
                             /\ token_out_type # token_in_type)}
    IN  UNION {new_dexes(id, graph[id], token_in_type, token_out_type) :
                  id \in pools}

\* One pass of `for nth_hop in 0..MAX_HOP_COUNT` in find_sell_paths over the
\* coins of `stack`.  No coin has more than MAX_POOL_COUNT dexes here, so the
\* dexes of a coin are those of at least MIN_LIQUIDITY.
RECURSIVE Hops(_, _, _, _, _)
Hops(graph, nth_hop, stack, visited, all_hops) ==
    LET is_last_hop == nth_hop = MAX_HOP_COUNT - 1
        popped == {coin \in stack : coin \notin visited /\ ~is_native_coin(coin)}
        dexes(coin_type) ==
            {dex \in find_dexes(graph, coin_type,
                                IF coin_type \in pegged_coin_types \/ is_last_hop
                                THEN SUI_COIN_TYPE ELSE NoCoin) :
                dex.liquidity >= MIN_LIQUIDITY}
        now_visited == visited \cup popped
        new_stack == {dex.coin_out_type : dex \in UNION {dexes(coin) : coin \in popped}}
                     \ now_visited
        hops == [coin \in GraphCoins |->
                    IF coin \in popped THEN dexes(coin) ELSE all_hops[coin]]
    IN  IF is_last_hop THEN hops
        ELSE Hops(graph, nth_hop + 1, new_stack, now_visited, hops)

\* dfs: the routes from coin_type to the native coin over `hops`.
RECURSIVE dfs(_, _, _)
dfs(coin_type, path, hops) ==
    IF is_native_coin(coin_type) THEN {path}
    ELSE IF Len(path) >= MAX_HOP_COUNT THEN {}
    ELSE UNION {dfs(dex.coin_out_type, Append(path, dex), hops) :
                   dex \in hops[coin_type]}

\* Defi::find_sell_paths, as the set of its paths.
find_sell_paths(graph, coin_in_type) ==
    IF is_native_coin(coin_in_type) THEN {<<>>}
    ELSE dfs(coin_in_type, <<>>,
             Hops(graph, 0, {coin_in_type}, {}, [coin \in GraphCoins |-> {}]))

\* A flip that leaves the reported direction as it was.
flip_keeps_coins(dex) == dex

\* Dex::flip: every adapter swaps coin_in_type and coin_out_type, and that
\* is all Aftermath::flip does.
flip(dex) ==
    [dex EXCEPT !.coin_in_type = dex.coin_out_type,
                !.coin_out_type = dex.coin_in_type]

Reverse(path) == [i \in DOMAIN path |-> path[Len(path) + 1 - i]]

\* Defi::find_buy_paths
find_buy_paths(graph, coin_out_type) ==
    {[i \in DOMAIN path |-> flip(Reverse(path)[i])] :
        path \in find_sell_paths(graph, coin_out_type)}

\* The coins the Move call of Dex::extend_trade_tx takes and gives: Cetus
\* calls swap_a2b when is_a2b() (coin_in_type is token 0) and swap_b2a
\* otherwise; Aftermath calls swap_exact_in with its stored type arguments.
SwapCall(dex) ==
    IF dex.protocol = "aftermath"
    THEN [pool |-> dex.pool, coin_in |-> dex.type_params[1],
          coin_out |-> dex.type_params[2]]
    ELSE IF token_index(dex.type_params, dex.coin_in_type) = 1
    THEN [pool |-> dex.pool, coin_in |-> dex.type_params[1],
          coin_out |-> dex.type_params[2]]
    ELSE [pool |-> dex.pool, coin_in |-> dex.type_params[2],
          coin_out |-> dex.type_params[1]]

PoolsOf(path) == [i \in DOMAIN path |-> path[i].pool]

\* The routes of TrialCtx::trial for one best buy path, as a set.
TrialRoutes(best_buy_path, sell_paths, pool_id) ==
    {best_buy_path \o p :
        p \in {p \in sell_paths :
                  /\ is_disjoint(PoolsOf(best_buy_path), PoolsOf(p))
                  /\ \/ contains_pool(PoolsOf(best_buy_path), pool_id)
                     \/ contains_pool(PoolsOf(p), pool_id)}}

PathsFrame(op, graph, coin_type, sell_paths, buy_paths, routes) ==
    [op |-> op, graph |-> graph, coin_type |-> coin_type,
     sell_paths |-> sell_paths, buy_paths |-> buy_paths, routes |-> routes]

PathsInit ==
    /\ now = 0
    /\ map = {}
    /\ heap = {}
    /\ generation_counter = 0
    /\ channel = <<>>
    /\ recent_arbs = <<>>
    /\ \E graph \in Graphs, coin_type \in GraphCoins :
         last = PathsFrame("graph", graph, coin_type, {}, {}, {})

\* TrialCtx::new: the buy paths and the sell paths of the coin.
FindPaths ==
    /\ last.op = "graph"
    /\ last' = [last EXCEPT
           !.op = "paths",
           !.buy_paths = find_buy_paths(last.graph, last.coin_type),
           !.sell_paths = find_sell_paths(last.graph, last.coin_type)]
    /\ UNCHANGED <<now, map, heap, generation_counter, channel, recent_arbs>>

\* TrialCtx::trial: the best buy path is one of the non-empty buy paths, and
\* the sell paths are appended to it.
TrialRoute ==
    /\ last.op = "paths"
    /\ \E best_buy_path \in {p \in last.buy_paths : p # <<>>},
          pool_id \in {NoPool} \cup DOMAIN last.graph :
         last' = [last EXCEPT
             !.op = "routes",
             !.routes = TrialRoutes(best_buy_path, last.sell_paths, pool_id)]
    /\ UNCHANGED <<now, map, heap, generation_counter, channel, recent_arbs>>

PathsNext == FindPaths \/ TrialRoute

\* The paths of one coin over one pool graph, and the routes of a trial.
SpecPaths == PathsInit /\ [][PathsNext]_vars

\* ------------------------------------- balance changes of a simulation

\* An Option of a number.
NoneAmount == [some |-> FALSE, amount |-> 0]
SomeAmount(a) == [some |-> TRUE, amount |-> a]

\* u64 subtraction a - b: exact when it fits; otherwise the build decides,
\* a panic with overflow checks and a wrapped difference without them.
SubU64(a, b, build) ==
    IF a >= b THEN [panic |-> FALSE, value |-> a - b]
    ELSE IF build = "overflow_checks" THEN [panic |-> TRUE, value |-> 0]
    ELSE [panic |-> FALSE, value |-> (a - b) % WordSize]
Builds == {"overflow_checks", "wrapping"}

\* `// Subtract how much we borrowed`: the sender's native-coin entry of
\* balance_changes (NoneAmount: there is none) after the block.
SubtractBorrowed(entry, borrowed_coin) ==
    IF ~borrowed_coin.some THEN entry
    ELSE IF entry.some THEN SomeAmount(entry.amount - borrowed_coin.amount)
    ELSE SomeAmount(0 - borrowed_coin.amount)

\* `if use_mock_gas { .. }`: init_amount - final_amount is computed in u64
\* when the entry is found, final_amount - init_amount in i128 when it is
\* pushed.
MockGasChange(entry, use_mock_gas, final_amount, build) ==
    IF ~use_mock_gas THEN [panic |-> FALSE, entry |-> entry]
    ELSE IF entry.some
    THEN LET spent == SubU64(MockGasValue, final_amount, build)
         IN  [panic |-> spent.panic,
              entry |-> IF spent.panic THEN NoneAmount
                        ELSE SomeAmount(entry.amount - spent.value)]
    ELSE [panic |-> FALSE, entry |-> SomeAmount(final_amount - MockGasValue)]

\* The balance-change part of DBSimulator::simulate: real_net is the
\* sender's native-coin entry that get_balance_changes_from_effect returns
\* with the mock gas coin and the borrowed coin ignored.
simulate_balance(real_net, borrowed_coin, use_mock_gas, final_amount, build) ==
    MockGasChange(SubtractBorrowed(real_net, borrowed_coin), use_mock_gas,
                  final_amount, build)

SimFrame(op, real_net, borrowed_coin, use_mock_gas, final_amount, result) ==
    [op |-> op, real_net |-> real_net, borrowed_coin |-> borrowed_coin,
     use_mock_gas |-> use_mock_gas, final_amount |-> final_amount,
     result |-> result]

\* The executed transaction: the mock gas coin paid gas or, with a storage
\* rebate above the gas charged, gained value.  Without a mock gas coin its
\* value does not change.
SimInit ==
    /\ now = 0
    /\ map = {}
    /\ heap = {}
    /\ generation_counter = 0
    /\ channel = <<>>
    /\ recent_arbs = <<>>
    /\ \E real_net \in {NoneAmount}
                       \cup {SomeAmount(a) : a \in (0 - MaxNetChange)..MaxNetChange},
          borrowed_coin \in {NoneAmount} \cup {SomeAmount(a) : a \in 1..MaxBorrowed},
          use_mock_gas \in BOOLEAN,
          gas_delta \in (0 - MaxGasDelta)..MaxGasDelta :
         /\ ~use_mock_gas => gas_delta = 0
         /\ use_mock_gas \/ borrowed_coin.some
         /\ last = SimFrame("executed", real_net, borrowed_coin, use_mock_gas,
                            MockGasValue + gas_delta,
                            [panic |-> FALSE, entry |-> NoneAmount])

SimulateBalance ==
    /\ last.op = "executed"
    /\ \E build \in Builds :
         last' = [last EXCEPT
             !.op = "simulated",
             !.result = simulate_balance(last.real_net, last.borrowed_coin,
                                         last.use_mock_gas, last.final_amount,
                                         build)]
    /\ UNCHANGED <<now, map, heap, generation_counter, channel, recent_arbs>>

\* One simulation with a mocked gas coin and/or a borrowed coin.
SpecSimulate == SimInit /\ [][SimulateBalance]_vars

\* ------------------------------------------- the pipeline with a backlog

\* The item process_event sends for a sealed-auction event of coinA.
BacklogItem ==
    LET trigger == TriggerOf("Shio")
    IN  [coin |-> "coinA", pool_id |-> trigger.pool_id,
         tx_digest |-> trigger.digest,
         source |-> SourceOf(trigger, CHOOSE start \in HandlerClockMs : TRUE)]

\* The pipeline after ChannelLimit sealed-auction events of coinA that no
\* worker has taken yet: the channel is at its limit, the cache is empty.
BacklogInit ==
    /\ now = 0
    /\ map = {}
    /\ heap = {}
    /\ generation_counter = ChannelLimit
    /\ channel = [i \in 1..ChannelLimit |-> BacklogItem]
    /\ recent_arbs = [i \in 1..MaxRecentArbs |-> "coinA"]
    /\ last = [Step("process_event") EXCEPT
                  !.channel_len = ChannelLimit - 1,
                  !.pops = <<[coin |-> "coinA", shio |-> TRUE,
                              in_ring |-> TRUE, sent |-> TRUE]>>,
                  !.swept = TRUE]

BacklogProcessEvent == ProcessEventUpTo(MaxBacklogGen)

BacklogNext == BacklogProcessEvent \/ Idle \/ WorkerRecv

\* Events, the clock and the workers, from a full channel on.
SpecBacklog == BacklogInit /\ [][BacklogNext]_vars

\* -------------------------------------------------- the digest loop

\* GAS_BUDGET, scaled into 0..MaxGasBudget.
GAS_BUDGET == 1

\* TransactionData::digest() of the transaction built with each gas budget:
\* a hash, so any assignment of digests to budgets.
BudgetDigests == [0..MaxGasBudget -> Digests]

\* `gas_budget += 1` in u64: past the largest value the build decides, a
\* panic with overflow checks and a wrap to 0 without them.
IncrementU64(gas_budget, build) ==
    IF gas_budget < MaxGasBudget THEN [panic |-> FALSE, value |-> gas_budget + 1]
    ELSE IF build = "overflow_checks" THEN [panic |-> TRUE, value |-> gas_budget]
    ELSE [panic |-> FALSE, value |-> 0]

\* built: the gas budget of the tx_data last built.
BumpFrame(op, h, opp_tx_digest, gas_budget, built, overflowed) ==
    [op |-> op, h |-> h, opp_tx_digest |-> opp_tx_digest,
     gas_budget |-> gas_budget, built |-> built, overflowed |-> overflowed]

\* `6. finalize` of get_flashloan_trade_tx for a Shio source: tx_data is
\* built with GAS_BUDGET.
BumpInit ==
    /\ now = 0
    /\ map = {}
    /\ heap = {}
    /\ generation_counter = 0
    /\ channel = <<>>
    /\ recent_arbs = <<>>
    /\ \E h \in BudgetDigests, opp_tx_digest \in Digests :
         last = BumpFrame("build", h, opp_tx_digest, GAS_BUDGET, GAS_BUDGET, FALSE)

IsBump == last.op \in {"build", "rebuild", "panicked", "bump_return"}

\* `while tx_data.digest() <= opp_tx_digest`
WhileCondition(f) == f.h[f.built] <= f.opp_tx_digest

\* One iteration: gas_budget += 1 and the rebuild.
BumpIterate ==
    /\ last.op \in {"build", "rebuild"}
    /\ WhileCondition(last)
    /\ \E build \in Builds :
         LET next == IncrementU64(last.gas_budget, build)
         IN  last' = IF next.panic
                     THEN [last EXCEPT !.op = "panicked", !.overflowed = TRUE]
                     ELSE [last EXCEPT
                              !.op = "rebuild",
                              !.gas_budget = next.value,
                              !.built = next.value,
                              !.overflowed = @ \/ last.gas_budget = MaxGasBudget]
    /\ UNCHANGED <<now, map, heap, generation_counter, channel, recent_arbs>>

\* The loop ends and get_flashloan_trade_tx returns tx_data.
BumpReturn ==
    /\ last.op \in {"build", "rebuild"}
    /\ ~WhileCondition(last)
    /\ last' = [last EXCEPT !.op = "bump_return"]
    /\ UNCHANGED <<now, map, heap, generation_counter, channel, recent_arbs>>

BumpNext == BumpIterate \/ BumpReturn

\* The digest loop of one bid; the loop keeps running while it can.
SpecBump == BumpInit /\ [][BumpNext]_vars /\ WF_vars(BumpNext)

\* ------------------------------------------------ the step closure in INP

InpModulus == 2 ^ InpBits

\* a * b modulo InpModulus, by doubling.
RECURSIVE MulWrapped(_, _)
MulWrapped(a, b) ==
    IF b = 0 THEN 0
    ELSE (2 * MulWrapped(a, b \div 2) + (b % 2) * a) % InpModulus

\* x * d does not fit in INP.
ProductOverflows(x) == x > (InpModulus - 1) \div GoldenD

\* INP multiplication x * d: exact when it fits; otherwise the build decides,
\* a panic with overflow checks and the wrapped product without them.
MulInp(x, build) ==
    IF ~ProductOverflows(x) THEN [panic |-> FALSE, value |-> x * GoldenD]
    ELSE IF build = "overflow_checks" THEN [panic |-> TRUE, value |-> 0]
    ELSE [panic |-> FALSE, value |-> MulWrapped(x, GoldenD)]

\* The closure c in INP arithmetic. guard: `x * d < x` was true.
c_inp(x, build) ==
    LET p == MulInp(x, build)
    IN  IF p.panic THEN [panic |-> TRUE, guard |-> FALSE, value |-> 0]
        ELSE IF p.value < x
        THEN [panic |-> FALSE, guard |-> TRUE,
              value |-> (x \div GoldenU) * GoldenD]
        ELSE [panic |-> FALSE, guard |-> FALSE, value |-> p.value \div GoldenU]

StepFrame(op, x, build, result) ==
    [op |-> op, x |-> x, build |-> build, result |-> result]

StepInit ==
    /\ now = 0
    /\ map = {}
    /\ heap = {}
    /\ generation_counter = 0
    /\ channel = <<>>
    /\ recent_arbs = <<>>
    /\ \E x \in 0..MaxStepWidth :
         last = StepFrame("width", x, "none",
                          [panic |-> FALSE, guard |-> FALSE, value |-> 0])

IsStep == last.op \in {"width", "c"}

\* `let delta = c(right - left)` and the two calls of c in the loop.
StepCall ==
    /\ last.op = "width"
    /\ \E build \in Builds :
         last' = StepFrame("c", last.x, build, c_inp(last.x, build))
    /\ UNCHANGED <<now, map, heap, generation_counter, channel, recent_arbs>>

\* One call of the step closure on a width.
SpecStep == StepInit /\ [][StepCall]_vars

\* ------------------------------------------------------------------ claims

\* C1: after any sequence of insert, pop_one and remove_expired calls the map
\* holds at most one entry per coin, and that entry's generation is greater
\* than or equal to the generation of every heap item queued for the coin.
C1_CacheUniqueness ==
    \A e \in map :
        /\ \A f \in map : f.coin = e.coin => f = e
        /\ \A h \in heap : h.coin = e.coin => e.generation >= h.generation

\* A coin was inserted again: its entry is queued behind its own stale item.
C1_Witness ==
    \E e \in map : \E h \in heap : h.coin = e.coin /\ h.generation < e.generation

\* C2: pop_one returns an item only for a coin whose map entry, at the time
\* of the call, has the generation of the popped heap item and an expires_at
\* later than now; an insert sets expires_at to TTL after the call, so an
\* entry whose TTL has elapsed is never returned.
C2_PopOneReturnsCurrent ==
    [][/\ (last'.op = "pop_one" /\ last'.item # NoItem) =>
            \E e \in map :
                /\ e.coin = last'.item.coin
                /\ e.generation = last'.generation
                /\ e.expires_at > now
                /\ last'.item.tx_digest = e.digest
                /\ last'.item.source = e.source
       /\ last'.op = "insert" =>
            \E e \in map' :
                e.generation = generation_counter' /\ e.expires_at = now + TTL
      ]_vars

\* pop_one returned the entry of a coin that was inserted more than once,
\* some time after its last insert and before its expiry.
C2_Witness ==
    /\ last.op = "pop_one"
    /\ last.item # NoItem
    /\ last.generation > 1
    /\ last.generation < generation_counter
    /\ now > 0

\* C3: right after remove_expired returns, the map contains no entry whose
\* expires_at is at or before the time of the call.
C3_NoExpiredAfterSweep ==
    last.op = "remove_expired" => \A e \in map : e.expires_at > now

\* remove_expired removed an expired entry and kept one that is still live.
C3_Witness ==
    /\ last.op = "remove_expired"
    /\ last.expired # <<>>
    /\ map # {}

\* The entries that leave the map in a step because their TTL elapsed: gone
\* from the map, expired at the time of the call, and not replaced by an
\* insert.
LeftByTTL(m, m2, t, op) ==
    {e \in m : e \notin m2 /\ e.expires_at <= t /\ op # "insert"}

\* C4 as claimed: every cache entry that leaves the map because its TTL
\* elapsed is included in the list of coins returned by a remove_expired call.
C4_Original ==
    [][\A e \in LeftByTTL(map, map', now, last'.op) :
            last'.op = "remove_expired" /\ e.coin \in Range(last'.expired)]_vars

\* C4 as amended: an entry leaves the map on its TTL only in remove_expired
\* or in pop_one; remove_expired returns the coin of every entry it removes
\* and of no other, and pop_one drops the expired entries it meets without
\* reporting them.
C4_SweepReportsItsRemovals ==
    [][/\ \A e \in LeftByTTL(map, map', now, last'.op) :
              last'.op \in {"remove_expired", "pop_one"}
       /\ last'.op = "remove_expired" =>
              /\ {e.coin : e \in map \ map'} = Range(last'.expired)
              /\ \A e \in map \ map' : e.expires_at <= now
              /\ map' \subseteq map
      ]_vars

\* One remove_expired call returned two coins.
C4_Witness == last.op = "remove_expired" /\ Len(last.expired) = 2

C6_Original ==
    (last.op = "process_event" /\ last.swept) =>
        \A i \in 1..Len(last.expired) : last.expired[i] \notin Range(recent_arbs)

Sent(pops) == {i \in 1..Len(pops) : pops[i].sent}

\* C7: if the channel holds L items when dispatch starts, at most 10 - L
\* items are popped and enqueued when L < 10, and none when L >= 10.
C7_DispatchBounded ==
    (last.op = "process_event" /\ last.ok) =>
        /\ Len(channel) = last.channel_len + Cardinality(Sent(last.pops))
        /\ last.channel_len < 10 => Len(last.pops) <= 10 - last.channel_len
        /\ last.channel_len >= 10 => last.pops = <<>>

\* An event found the channel full and left an entry in the cache.
C7_Witness ==
    /\ last.op = "process_event"
    /\ last.ok
    /\ last.channel_len >= 10
    /\ map # {}

\* C8: a popped item is enqueued if and only if its source is a
\* sealed-auction opportunity or its coin is not in the recent-arbs ring.
C8_EnqueueRule ==
    (last.op = "process_event" /\ last.ok) =>
        /\ \A i \in 1..Len(last.pops) :
              last.pops[i].sent <=> (last.pops[i].shio \/ ~last.pops[i].in_ring)
        /\ Len(channel) = last.channel_len + Cardinality(Sent(last.pops))

\* One event popped a public item whose coin was in the ring, which was
\* skipped, and an item whose coin was not in the ring, which was sent.
C8_Witness ==
    /\ last.op = "process_event"
    /\ \E i \in 1..Len(last.pops) :
          last.pops[i].in_ring /\ ~last.pops[i].shio /\ ~last.pops[i].sent
    /\ \E i \in 1..Len(last.pops) :
          ~last.pops[i].in_ring /\ last.pops[i].sent

\* C9: for every sealed-auction bid that a worker submits (a ShioSubmitBid
\* action), the digest of the transaction data submitted is strictly greater
\* than the trigger transaction's digest.
C9_Original ==
    (last.op = "handle_arb_item" /\ last.action.kind = "ShioSubmitBid") =>
        last.action.digest > last.action.tx_digest

\* C10: a worker submits a transaction (public execution or sealed bid) only
\* if the final dry-run of that transaction succeeded and reported a
\* strictly positive balance change in the native coin for the sender.
C10_Original ==
    (last.op = "handle_arb_item" /\ last.action # NoAction) =>
        /\ last.resp.status_ok
        /\ \E i \in 1..Len(last.resp.balance_changes) :
              /\ last.resp.balance_changes[i].owner = Sender
              /\ last.resp.balance_changes[i].coin_type = SUI_COIN_TYPE
              /\ last.resp.balance_changes[i].amount > 0

\* C11: no sealed-auction bid is produced for an item whose arbitrage was
\* found at or after its deadline: stamping the arb-found time t keeps the
\* source as Shio exactly when t < deadline and otherwise demotes it to
\* ShioDeadlineMissed, and a demoted item never yields a ShioSubmitBid
\* action.
C11_NoBidAfterDeadline ==
    (/\ last.op = "handle_arb_item"
     /\ last.built # NoTx
     /\ last.item.source.kind = "Shio") =>
        /\ last.arb_source.kind \in {"Shio", "ShioDeadlineMissed"}
        /\ last.arb_source.kind = "Shio" <=>
               last.arb_source.arb_found < last.item.source.deadline
        /\ last.arb_source.deadline = last.item.source.deadline
        /\ last.action.kind = "ShioSubmitBid" =>
               /\ last.arb_source.kind = "Shio"
               /\ last.arb_source.arb_found < last.item.source.deadline

\* The arbitrage of a sealed-auction item was found at its deadline, its
\* source was demoted, and its transaction passed the final dry-run.
C11_Witness ==
    /\ last.op = "handle_arb_item"
    /\ last.item.source.kind = "Shio"
    /\ last.arb_source.kind = "ShioDeadlineMissed"
    /\ last.arb_source.arb_found = last.item.source.deadline
    /\ last.action # NoAction

\* A search that has returned.
Returned == last.op = "gss" /\ last.pc = "done"

\* C12: for any evaluation function f with positive values and any bounds
\* lo < hi, golden_section_search_maximize(lo, hi, f) returns a best value
\* that is greater than or equal to f(lo) and to f(hi).
C12_BestAtLeastBounds ==
    Returned =>
        /\ last.max_f >= last.f[last.min]
        /\ last.max_f >= last.f[last.max]
        /\ last.max_in \in last.min..last.max
        /\ last.max_f = last.f[last.max_in]

\* A search whose loop ran returned a value above both bounds, having
\* evaluated a lower value after it.
C12_Witness ==
    /\ Returned
    /\ last.tries > 0
    /\ last.max_f > last.f[last.min]
    /\ last.max_f > last.f[last.max]
    /\ last.f[last.evals[Len(last.evals)]] < last.max_f

\* An iteration of the loop: from one loop head to the next.
Iteration == last.op = "gss" /\ last.pc = "loop" /\ last'.pc = "loop"

StrictlyUnimodal(f, lo, hi) ==
    \E peak \in lo..hi :
        /\ \A x \in lo..(peak - 1) : f[x] < f[x + 1]
        /\ \A x \in peak..(hi - 1) : f[x] > f[x + 1]

\* C15: for an evaluation function that is strictly unimodal over [lo, hi],
\* golden_section_search_maximize returns the input and the value of the
\* true maximum.
C15_Original ==
    (Returned /\ StrictlyUnimodal(last.f, last.min, last.max)) =>
        \A x \in last.min..last.max :
            x # last.max_in => last.f[x] < last.max_f

\* C16: for an evaluation function that is strictly increasing over
\* [lo, hi], golden_section_search_maximize returns input hi and value
\* f(hi).
C16_IncreasingReturnsUpperBound ==
    (Returned /\ \A x \in last.min..(last.max - 1) : last.f[x] < last.f[x + 1]) =>
        /\ last.max_in = last.max
        /\ last.max_f = last.f[last.max]

\* The search over [1, 9] of the test returned for a strictly increasing
\* function, after iterations of its loop.
C16_Witness ==
    /\ Returned
    /\ last.min = 1 /\ last.max = 9
    /\ \A x \in 1..8 : last.f[x] < last.f[x + 1]
    /\ last.tries > 0
    /\ last.max_in = 9

\* C13: whenever find_opportunity succeeds after the grid stage found a best
\* profit p1 > 0, the profit of the result it reports is greater than or
\* equal to p1: the golden-section stage either improves the grid result or
\* leaves it untouched.
C13_RefinementNeverLowers ==
    (last.op = "find_opportunity" /\ last.ok /\ last.p1 > 0) =>
        /\ last.profit >= last.p1
        /\ \/ last.profit = last.p1
           \/ last.use_gss /\ last.profit = last.gss_profit

\* The golden-section stage ran and found less than the grid stage, whose
\* result was kept.
C13_Witness ==
    /\ last.op = "find_opportunity"
    /\ last.ok
    /\ last.use_gss
    /\ last.gss_profit > 0
    /\ last.gss_profit < last.p1
    /\ last.profit = last.p1

TrialDone == last.op = "trial" /\ last.pc = "done"

\* The routes the claim describes: the best buy path joined with each sell
\* path that shares no pool with it, the route having to contain the trigger
\* pool only when one was specified.
RECURSIVE ClaimedRoutes(_, _, _, _)
ClaimedRoutes(best_buy_path, sell_paths, pool_id, k) ==
    IF k > Len(sell_paths) THEN <<>>
    ELSE LET q == sell_paths[k]
             rest == ClaimedRoutes(best_buy_path, sell_paths, pool_id, k + 1)
         IN  IF Range(best_buy_path) \cap Range(q) = {}
                /\ (pool_id = NoPool \/ pool_id \in Range(best_buy_path \o q))
             THEN <<best_buy_path \o q>> \o rest
             ELSE rest

\* C17: in a trial the candidate routes are the best buy path joined with
\* each sell path that shares no pool with it, a route having to contain the
\* trigger pool only if one was specified; with no trigger pool every sell
\* path disjoint from the buy path yields a candidate route.
C17_Original ==
    (TrialDone /\ last.stage # "buy") =>
        last.trade_paths =
            ClaimedRoutes(last.best_buy_path, last.sell_paths, last.pool_id, 1)

FindBestPathDone == last.op = "find_best_path" /\ last.pc = "done"

\* The indexes whose simulation returned the greatest amount_out.
Greatest(results, S) ==
    {idx \in S : results[idx].ok
                 /\ \A j \in S : results[j].ok =>
                        results[j].amount_out <= results[idx].amount_out}

\* C18: find_best_path_exact_in returns the path with the greatest simulated
\* amount_out among the input paths and, on a tie, the one that comes first
\* in the input list, whatever order the simulations complete in.
C18_Original ==
    (FindBestPathDone /\ last.ok) =>
        /\ last.idx \in Greatest(last.results, Spawned(last.paths))
        /\ \A j \in Greatest(last.results, Spawned(last.paths)) : last.idx <= j

\* C18, as the code has it: the path returned has the greatest simulated
\* amount_out among the paths simulated, and on a tie it is the one whose
\* simulation was joined first.
C18_GreatestFirstJoined ==
    (FindBestPathDone /\ last.ok) =>
        /\ last.idx \in Greatest(last.results, Spawned(last.paths))
        /\ last.path = last.paths[last.idx]
        /\ last.amount_out = last.results[last.idx].amount_out
        /\ \A k \in DOMAIN last.order :
             last.order[k] \in Greatest(last.results, Spawned(last.paths)) =>
                 \E i \in 1..k : last.order[i] = last.idx

\* Three paths tie for the greatest amount_out and the last of the list is
\* returned.
C18_Witness ==
    /\ FindBestPathDone /\ last.ok
    /\ Cardinality(Greatest(last.results, Spawned(last.paths))) = 3
    /\ last.idx = 3

\* C19: in the update loop of the replay simulator, the sleep after a tick
\* that drained a notification and the sleeps after the next ticks are short
\* for a quota of 50 ticks in all, a later notification starting the quota
\* again; once the quota is used up the sleeps are long; with no
\* notification every sleep is long.
C19_ShortQuota ==
    IsReplay =>
        (last.current_interval = "short"
            <=> (last.notified /\ last.since < QuickUpdateQuota))

\* The quota has just run out: the 51st sleep after the notification is long.
C19_Witness ==
    /\ last.op = "tick"
    /\ last.notified
    /\ last.since = QuickUpdateQuota
    /\ last.current_interval = "long"

\* C20: the worker's notification never blocks the worker, however many
\* submissions happen between two ticks of the update loop.
C20_Original == IsReplay => ~last.blocked

\* C21: across all the bids built in the process, those built at the same
\* time by different workers included, the global-state object is picked
\* round-robin from one counter: consecutive bids use consecutive objects
\* modulo the number of objects, and the index is always within bounds.
C21_Original ==
    (last.op = "next_state") =>
        /\ last.pick \in 0..(MaxStates - 1)
        /\ last.prev # NoIdx => last.pick = (last.prev + 1) % MaxStates

\* C22: the cached epoch is fetched again from chain before it is used
\* exactly when the wall clock is later than epoch start + epoch duration;
\* while the clock is within the epoch the cached value is reused without a
\* fetch.
C22_Original ==
    (last.op = "get_latest_epoch" /\ last.before.some) =>
        (last.fetched <=>
            last.clock > last.before.epoch_start_timestamp
                            + last.before.epoch_duration_ms)

\* C23: after a restart, one that follows a crash or a persistence error at
\* any point inside a batch flush included, backfill resumes from the
\* persisted cursor without processing again an event whose pool record was
\* persisted: no pool record is written twice.
C23_Original ==
    IsBackfill =>
        \A i, j \in DOMAIN last.pools_file :
            i < j => last.pools_file[i] # last.pools_file[j]

\* The pools present in some map of the cache.
PresentPools ==
    {e.pool : e \in last.token_pools} \cup {e.pool : e \in last.token01_pools}
        \cup last.pool_map

\* C24: in every state a concurrent reader of the PoolCache can observe, a
\* pool present in one of the three maps is present in all three: under
\* each of its coins, under each pair of its coins and under its pool id.
C24_Original ==
    IsPoolCache =>
        \A q \in PresentPools :
            /\ \A i \in DOMAIN q.tokens :
                 [key |-> q.tokens[i], pool |-> q] \in last.token_pools
            /\ \A i, j \in DOMAIN q.tokens :
                 i < j => [key |-> token01_key(q.tokens[i], q.tokens[j]),
                           pool |-> q] \in last.token01_pools
            /\ q \in last.pool_map

FlashloanBuilt == last.op = "flashloan_tx" /\ last.pc = "done" /\ last.ok

CmdsOfKind(tx, kind) == {i \in DOMAIN tx : tx[i].kind = kind}

\* C25: every transaction get_flashloan_trade_tx builds has exactly one
\* flash-loan borrow, before every swap leg, and exactly one repay, after
\* every swap leg, that takes that borrow's receipt and is on the same
\* lender: the first leg's pool when it supports flash loans, the lending
\* adapter otherwise; no receipt is left unconsumed.
C25_OneBorrowOneRepay ==
    FlashloanBuilt =>
        /\ Cardinality(CmdsOfKind(last.tx, "borrow")) = 1
        /\ Cardinality(CmdsOfKind(last.tx, "repay")) = 1
        /\ \A b \in CmdsOfKind(last.tx, "borrow"),
              r \in CmdsOfKind(last.tx, "repay") :
                /\ last.tx[r].receipt = b
                /\ last.tx[r].dex = last.tx[b].dex
                /\ last.tx[b].dex =
                      (IF last.path[1].protocol \in {"cetus", "kriya_clmm"}
                       THEN last.path[1] ELSE [protocol |-> "navi", pool |-> 0])
                /\ \A s \in CmdsOfKind(last.tx, "swap") : b < s /\ s < r

\* A two-leg path whose first leg cannot lend: Navi lends and both legs are
\* swapped between the borrow and the repay.
C25_Witness ==
    /\ FlashloanBuilt
    /\ Len(last.path) = 2
    /\ last.path[1].protocol = "turbos"
    /\ Cardinality(CmdsOfKind(last.tx, "swap")) = 2
    /\ last.shio

LookupDone == last.op \in {"get_object", "get_object_by_key"}

\* The overlay has an entry for the object looked up.
Shadowed ==
    \/ last.id = 0
    \/ \E k \in DOMAIN last.overrides : last.overrides[k].id = last.id

FirstEntry ==
    last.overrides[CHOOSE k \in DOMAIN last.overrides :
                      /\ last.overrides[k].id = last.id
                      /\ \A j \in 1..(k - 1) : last.overrides[j].id # last.id]

\* C26: during a simulation an object that has an overlay entry is always
\* served from the overlay: no lookup, by id alone or by id and version,
\* returns the base store's copy of an object the overlay shadows.
C26_Original ==
    (LookupDone /\ Shadowed) => last.result.origin # "base"

\* C26, as the code has it: a lookup by id alone of a shadowed object never
\* returns the base store's copy; a lookup by id and version returns the
\* overlay's object when its version is the one asked for, nothing when the
\* overlay marks the object deleted, and otherwise what the base store holds
\* under that id and version.
C26_OverlayUnlessOtherVersion ==
    (LookupDone /\ Shadowed) =>
        /\ last.op = "get_object" => last.result.origin # "base"
        /\ (last.op = "get_object_by_key" /\ last.id # 0) =>
             IF FirstEntry.deleted THEN ~last.result.some
             ELSE IF FirstEntry.version = last.version
             THEN last.result.origin = "overlay"
                  /\ last.result.version = last.version
             ELSE last.result =
                    (IF last.fallback /\ <<last.id, last.version>> \in last.base
                     THEN [some |-> TRUE, id |-> last.id,
                           version |-> last.version, origin |-> "base"]
                     ELSE [some |-> FALSE, id |-> 0, version |-> 0,
                           origin |-> "none"])
        /\ (last.op = "get_object_by_key" /\ last.id = 0) =>
             IF last.version = 1 THEN last.result.origin = "overlay"
             ELSE last.result.origin # "overlay"

\* A lookup by id and version of a shadowed object, at a version the overlay
\* does not hold, is answered by the base store.
C26_Witness ==
    /\ last.op = "get_object_by_key"
    /\ last.id # 0
    /\ Shadowed
    /\ ~FirstEntry.deleted
    /\ FirstEntry.version # last.version
    /\ last.result.origin = "base"

ProfitDone == last.op = "profit" /\ last.pc = "done"

RoundTrip ==
    last.res.coin_in_type = "SUI" /\ last.res.coin_out_type = "SUI"

\* C27: PathTradeResult.profit is amount_out - amount_in - gas_cost when the
\* path's input and output coins are both the native coin, and 0 for every
\* other path.
C27_Original ==
    ProfitDone =>
        last.profit = (IF RoundTrip
                       THEN last.res.amount_out - last.res.amount_in
                                - last.res.gas_cost
                       ELSE 0)

\* C27, as the code has it: the profit of a native-to-native path is
\* amount_out - amount_in - gas_cost; that of a path from the native coin to
\* another coin is the loss -amount_in - gas_cost; that of a path from
\* another coin is 0.
C27_ProfitByCoins ==
    ProfitDone =>
        /\ RoundTrip =>
             last.profit = last.res.amount_out - last.res.amount_in
                              - last.res.gas_cost
        /\ (last.res.coin_in_type = "SUI" /\ last.res.coin_out_type # "SUI") =>
             last.profit = 0 - last.res.amount_in - last.res.gas_cost
        /\ last.res.coin_in_type # "SUI" => last.profit = 0

\* A path from the native coin to another coin has a negative profit.
C27_Witness ==
    /\ ProfitDone
    /\ last.res.coin_in_type = "SUI" /\ last.res.coin_out_type # "SUI"
    /\ last.res.amount_out > 0
    /\ last.profit < 0

\* find_opportunity has returned the result for a sealed-auction
\* opportunity found before its deadline.
BidBuilt ==
    /\ last.op = "bid" /\ last.pc = "done"
    /\ last.ok
    /\ last.arb_source.kind = "Shio"

\* C28: for a sealed-auction opportunity whose best profit is P, the bid
\* amount stored in the source and used in the built transaction is P * 9/10
\* rounded down, so that the searcher retains 10% of P.
C28_Original ==
    BidBuilt =>
        /\ last.arb_source.bid_amount = (last.profit * 9) \div 10
        /\ last.tx_data.bid_amount = (last.profit * 9) \div 10

\* C28, as the code has it: the bid stored in the source and used in the
\* transaction is nine times the tenth of P rounded down, (P div 10) * 9,
\* which leaves the searcher at least 10% of P; with P below 10 the bid is 0
\* and no transaction is built.
C28_NineTimesTheTenth ==
    /\ BidBuilt =>
         /\ last.arb_source.bid_amount = (last.profit \div 10) * 9
         /\ last.tx_data.bid_amount = last.arb_source.bid_amount
         /\ 10 * (last.profit - last.arb_source.bid_amount) >= last.profit
         /\ last.profit >= 10
    /\ (last.op = "bid" /\ last.pc = "done" /\ last.arb_source.kind = "Shio"
            /\ last.profit < 10) => ~last.ok

\* A profit of 15 gives the bid 9, where nine tenths of it are 13.
C28_Witness ==
    /\ BidBuilt
    /\ last.profit = 15
    /\ last.tx_data.bid_amount = 9

C30_Original == IsRun => last.thread # "panicked"

\* C31: after a read error on the public-transaction socket the collector
\* keeps trying to reconnect until a connection succeeds; a failed reconnect
\* attempt never ends the collector's stream.
C31_Original == IsCollector => last.task # "panicked"

IsPaths == last.op \in {"graph", "paths", "routes"}

Chained(path) ==
    \A i \in 1..(Len(path) - 1) : path[i].coin_out_type = path[i + 1].coin_in_type

\* C32: in every non-empty path of find_sell_paths and find_buy_paths, and in
\* every buy-then-sell route of a trial, each leg's coin_out is the next
\* leg's coin_in; a sell path starts at the coin and ends at the native
\* coin, a buy path starts at the native coin and ends at the coin, and a
\* route starts and ends at the native coin.
C32_PathsChained ==
    IsPaths =>
        /\ \A path \in last.sell_paths : path # <<>> =>
              /\ Chained(path)
              /\ path[1].coin_in_type = last.coin_type
              /\ is_native_coin(path[Len(path)].coin_out_type)
        /\ \A path \in last.buy_paths : path # <<>> =>
              /\ Chained(path)
              /\ is_native_coin(path[1].coin_in_type)
              /\ path[Len(path)].coin_out_type = last.coin_type
        /\ \A path \in last.routes :
              /\ Chained(path)
              /\ is_native_coin(path[1].coin_in_type)
              /\ is_native_coin(path[Len(path)].coin_out_type)

\* A trial assembled a route of four legs from two-hop buy and sell paths.
C32_Witness ==
    /\ last.op = "routes"
    /\ \E path \in last.routes : Len(path) = 2 * MAX_HOP_COUNT
    /\ \E path \in last.sell_paths : Len(path) = MAX_HOP_COUNT

\* f is d flipped: the same pool, trading the same two coins the other way.
FlippedLeg(d, f) ==
    /\ f.pool = d.pool
    /\ SwapCall(f).coin_in = SwapCall(d).coin_out
    /\ SwapCall(f).coin_out = SwapCall(d).coin_in

ReversedAndFlipped(s, b) ==
    /\ Len(b) = Len(s)
    /\ \A i \in DOMAIN b : FlippedLeg(s[Len(s) + 1 - i], b[i])

\* C34: the paths of find_buy_paths(C) are exactly those of
\* find_sell_paths(C) with the leg order reversed and each leg flipped, a
\* flipped leg keeping its pool and trading the same two coins in the
\* opposite direction.
C34_Original ==
    last.op = "paths" =>
        /\ \A b \in last.buy_paths :
              \E s \in last.sell_paths : ReversedAndFlipped(s, b)
        /\ \A s \in last.sell_paths :
              \E b \in last.buy_paths : ReversedAndFlipped(s, b)

\* C33: with a mocked gas coin and/or a borrowed coin, the sender's
\* native-coin balance change is reported and equals (final mock-gas value -
\* initial mock-gas value) + (real net change) - borrowed amount, also when
\* execution produced no native-coin change for the sender.
C33_Original ==
    last.op = "simulated" =>
        /\ ~last.result.panic
        /\ last.result.entry =
              SomeAmount((last.final_amount - MockGasValue)
                         + last.real_net.amount - last.borrowed_coin.amount)

\* The step dispatched the sealed-auction entry e of the cache to a worker.
DispatchedShio(e, pops) ==
    \E i \in DOMAIN pops : pops[i].coin = e.coin /\ pops[i].shio /\ pops[i].sent

\* The opportunity of entry e is still in the cache m, as e or re-inserted by
\* the same auction.
StillCached(e, m) ==
    \E x \in m : x.coin = e.coin /\ x.digest = e.digest /\ is_shio(x.source)

\* C35: a sealed-auction opportunity in the arb cache leaves it only by
\* being dispatched to a worker or by TTL expiry; a later insert for the same
\* coin does not displace it.
C35_Original ==
    [][\A e \in map :
          (is_shio(e.source) /\ ~StillCached(e, map')) =>
              (DispatchedShio(e, last'.pops) \/ e.expires_at <= now')]_vars

\* C36: the worker channel never holds more than 10 items, in every
\* reachable state, however event processing and the workers' receives
\* interleave.
C36_ChannelAtMostLimit == Len(channel) <= ChannelLimit

\* An event found room in the channel and filled it to its limit.
C36_Witness ==
    /\ Len(channel) = ChannelLimit
    /\ last.op = "process_event"
    /\ last.channel_len < ChannelLimit
    /\ Cardinality(Sent(last.pops)) = ChannelLimit - last.channel_len

\* C37: for every trigger digest the gas-budget bump loop ends after a
\* bounded number of rebuilds, and gas_budget is never incremented past the
\* largest value of its type.
C37_Original == [](IsBump => ~last.overflowed) /\ <>(last.op = "bump_return")

\* C38: an item whose source was demoted to ShioDeadlineMissed is not
\* submitted: handle_arb_item emits neither a ShioSubmitBid nor an
\* ExecutePublicTx action for it.
C38_Original ==
    (/\ last.op = "handle_arb_item"
     /\ last.arb_source.kind = "ShioDeadlineMissed") =>
        last.action = NoAction

\* C39: for every width w of the input type, c(w) is at most w and is
\* w * 9002589 / 14566495 rounded down, and the guard inside c is taken for
\* every w whose product w * 9002589 does not fit in the type.
C39_Original ==
    last.op = "c" =>
        /\ ~last.result.panic
        /\ last.result.value <= last.x
        /\ last.result.value = (last.x * GoldenD) \div GoldenU
        /\ ProductOverflows(last.x) => last.result.guard

\* The search is at the head of its loop.
AtLoopHead == last.op = "gss" /\ last.pc = "loop"

\* C40: at every loop head of golden_section_search_maximize,
\* min <= left <= mid_left <= mid_right <= right <= max, so every point
\* evaluated lies in min..max and no subtraction of the search underflows.
C40_Original ==
    AtLoopHead =>
        /\ last.min <= last.left
        /\ last.left <= last.mid_left
        /\ last.mid_left <= last.mid_right
        /\ last.mid_right <= last.right
        /\ last.right <= last.max
        /\ \A i \in 1..Len(last.evals) :
             last.min <= last.evals[i] /\ last.evals[i] <= last.max

\* C40 as the code has it: at every loop head both interior points lie
\* between left and right, which lie between min and max; mid_left is at
\* most mid_right whenever the interval is wider than three, that is whenever the
\* loop goes round again; and every point evaluated lies in min..max.
C40_LoopHeadBounds ==
    AtLoopHead =>
        /\ last.min <= last.left
        /\ last.left <= last.mid_left
        /\ last.mid_left <= last.right
        /\ last.left <= last.mid_right
        /\ last.mid_right <= last.right
        /\ last.right <= last.max
        /\ last.right - last.left > Three => last.mid_left <= last.mid_right
        /\ \A i \in 1..Len(last.evals) :
             last.min <= last.evals[i] /\ last.evals[i] <= last.max

\* After an iteration the search is at a loop head where mid_right is
\* below mid_left.
C40_Witness ==
    /\ AtLoopHead
    /\ last.tries >= 1
    /\ last.mid_right < last.mid_left

====
